---- MODULE Spec2Model ----
(***************************************************************************)
(* A model of the PC hardware diagnostic tool: the GPU monitor            *)
(* (src/hardware/gpu_info.py, class GPUMonitor), the CPU, RAM and storage  *)
(* monitors (src/hardware/cpu_info.py, ram_info.py, storage_info.py) and   *)
(* the sampling timer of the main window (src/ui/main_window.py).          *)
(*                                                                         *)
(* Time is counted in tenths of a second.  Memory sizes reported by NVML   *)
(* are bytes, sizes reported by GPUtil are whole megabytes.  A Python      *)
(* float or None is a tagged record (Num, NaN, None): GPUtil turns a field *)
(* that nvidia-smi prints as "[N/A]" into float('nan').  GPUtil's load is  *)
(* a fraction; the model holds it in hundredths, so that `load * 100` is   *)
(* the same number read as a percentage.                                   *)
(***************************************************************************)
EXTENDS Integers, Sequences, FiniteSets, TLC

VARIABLES
    nvml_initialized,   \* self.nvml_initialized
    handles,            \* self.handles: the NVML handles, one device index each
    last_update,        \* self.last_update
    last_valid_load,    \* self.last_valid_load
    last_valid_info,    \* self.last_valid_info: None or a sample
    gpus,               \* self.gpus: the last GPUtil listing (or the WMI stand-in)
    now,                \* time.time()
    os_name,            \* os.name
    init_log,           \* the adapters __init__ probed, in order, with their outcome
    ret,                \* the latest call: method, returned value, what it read
    prev,               \* the get_gpu_info call before the latest one, when the
                        \* two are consecutive and less than update_interval apart
    session,            \* the NVML session: opened by nvmlInit, the calls of
                        \* nvmlShutdown and of __del__ so far
    partitions,         \* StorageMonitor.partitions: the volumes, in order
    cpu_info,           \* CPUMonitor.cpu_info: the keys of the dictionary
    tmp_files,          \* the volumes that hold a disk_speed_test.tmp file
    call,               \* the latest call into the CPU, RAM or storage monitor
    cpu_usage_data,     \* MainWindow.cpu_usage_data: the history of the CPU plot
    gpu_usage_data,     \* MainWindow.gpu_usage_data
    ram_usage_data,     \* MainWindow.ram_usage_data
    gpu_figure,         \* MainWindow.gpu_figure is not None
    gpu_labels,         \* len(MainWindow.gpu_labels), and of gpu_usage_bars
    stage,              \* how far the main window is: "none", "built", "running"
    ticks,              \* the update_data calls so far
    upsets              \* the update_data calls so far in which a source failed
                        \* or deviated from its ordinary answers

vars == <<nvml_initialized, handles, last_update, last_valid_load,
          last_valid_info, gpus, now, os_name, init_log, ret, prev,
          session, cpu_info, partitions, tmp_files, call,
          cpu_usage_data, gpu_usage_data, ram_usage_data, gpu_figure,
          gpu_labels, stage, ticks, upsets>>

fields == <<nvml_initialized, handles, last_update, last_valid_load,
            last_valid_info, gpus>>

\* What the CPU, RAM and storage monitors hold, and what the GPU monitor
\* holds: a call into one side leaves the other side alone.
host == <<cpu_info, partitions, tmp_files, call>>
gpu_monitor == <<fields, now, os_name, init_log, ret, prev, session>>

\* What the main window holds beside its monitors.
window == <<cpu_usage_data, gpu_usage_data, ram_usage_data, gpu_figure,
            gpu_labels, stage, ticks, upsets>>

----------------------------------------------------------------------------
(* Bounds of the model. *)

\* The largest number of devices a source lists.
MaxDevices == 2

\* How many tenths of a second the clock runs on after construction.
Horizon == 5

\* How many times __del__ is called on the monitor.
MaxTeardowns == 2

\* The largest number of volumes psutil.disk_partitions() lists.
MaxVolumes == 3

(* Program constants. *)

\* self.update_interval = 0.5 (seconds), in tenths of a second.
update_interval == 5

\* 1024*1024, the divisor that turns NVML's bytes into megabytes.
MiB == 1048576

\* time.time() at construction: any moment at least update_interval after
\* the epoch (the clock reads about 1.7e9 seconds).
StartTime == update_interval + 1

MaxTime == StartTime + Horizon

\* The steps by which the clock advances between two calls: a step shorter
\* than update_interval, and update_interval itself.
TickSteps == {3, update_interval}

----------------------------------------------------------------------------
(* Python values. *)

Num(n) == [t |-> "num", v |-> n]
NaN == [t |-> "nan", v |-> 0]
None == [t |-> "none", v |-> 0]
\* An attribute the object does not have (reading it raises AttributeError).
Missing == [t |-> "missing", v |-> 0]

\* a < b and a >= b on floats: every comparison with NaN is False.
PyLt(a, b) == a.t = "num" /\ b.t = "num" /\ a.v < b.v
PyGe(a, b) == a.t = "num" /\ b.t = "num" /\ a.v >= b.v
PyGt(a, b) == a.t = "num" /\ b.t = "num" /\ a.v > b.v

\* int(x) of a float raises ValueError on NaN (and AttributeError is raised
\* before it for a missing attribute); the listed sizes are whole numbers.
IntRaises(x) == x.t \in {"nan", "missing"}
PyInt(x) == x.v

\* The outcome of a call into a library: a value, or an exception.
Ok(v) == [ok |-> TRUE, v |-> v]
Fail == [ok |-> FALSE, v |-> 0]

----------------------------------------------------------------------------
(* The sources. *)

\* What nvidia-smi (through GPUtil) reports for one device: the ordinary
\* reading, and readings with a negative load, with sizes that do not add
\* up, and with fields that are NaN ("[N/A]") or None.
OrdinaryGPUtil ==
    [load |-> Num(40), memoryUsed |-> Num(1), memoryTotal |-> Num(2),
     memoryFree |-> Num(1), temperature |-> Num(60)]

GPUtilReadings ==
    { OrdinaryGPUtil,
      [load |-> Num(-10), memoryUsed |-> Num(3), memoryTotal |-> Num(2),
       memoryFree |-> Num(1), temperature |-> None],
      [load |-> Num(70),  memoryUsed |-> Num(1), memoryTotal |-> Num(2),
       memoryFree |-> NaN, temperature |-> Num(65)],
      [load |-> NaN,      memoryUsed |-> None, memoryTotal |-> None,
       memoryFree |-> None, temperature |-> NaN] }

NvmlMem(used, total, free) ==
    [ok |-> TRUE, used |-> used, total |-> total, free |-> free]
NvmlMemFail == [ok |-> FALSE, used |-> 0, total |-> 0, free |-> 0]

\* What the NVML calls on one handle answer: nvmlDeviceGetUtilizationRates,
\* nvmlDeviceGetMemoryInfo (bytes), nvmlDeviceGetTemperature and
\* nvmlDeviceGetTemperatureThreshold, each a value or an NVMLError.
OrdinaryNvml ==
    [util |-> Ok(30), mem |-> NvmlMem(MiB + 4096, 2 * MiB, MiB - 4096),
     temp |-> Ok(55), thresh |-> Ok(95)]

NvmlReadings ==
    { OrdinaryNvml,
      [util |-> Ok(-1), mem |-> NvmlMem(3 * MiB, 2 * MiB, 3 * MiB),
       temp |-> Ok(0), thresh |-> Ok(0)],
      [util |-> Fail, mem |-> NvmlMem(MiB, 3 * MiB, 2 * MiB),
       temp |-> Ok(45), thresh |-> Ok(95)],
      [util |-> Ok(150), mem |-> NvmlMemFail,
       temp |-> Ok(0), thresh |-> Ok(90)],
      [util |-> Ok(20), mem |-> NvmlMem(MiB, 3 * MiB, 2 * MiB),
       temp |-> Fail, thresh |-> Fail] }

\* What the two sources say about one device during one call: one of them
\* gives its ordinary reading while the other gives any reading.
DeviceSources ==
    { [g |-> OrdinaryGPUtil, n |-> r] : r \in NvmlReadings }
    \cup { [g |-> r, n |-> OrdinaryNvml] : r \in GPUtilReadings }

\* The object GPUtil.getGPUs() builds for the k-th device it lists.
DeviceName(k) == <<"gpu", k - 1>>
DeviceUuid(k) == <<"GPU-uuid", k - 1>>
GPU(k, r) ==
    [id |-> k - 1, name |-> DeviceName(k), load |-> r.load,
     memoryFree |-> r.memoryFree, memoryTotal |-> r.memoryTotal,
     memoryUsed |-> r.memoryUsed, temperature |-> r.temperature,
     uuid |-> DeviceUuid(k)]

\* The stand-in __init__ builds when only the OS sensor subsystem sees a GPU.
StandIn ==
    [id |-> 0, name |-> <<"Unknown GPU">>, load |-> Num(0),
     memoryFree |-> Missing, memoryTotal |-> Num(0), memoryUsed |-> Num(0),
     temperature |-> Num(0), uuid |-> <<"N/A">>]

\* GPUtil.getGPUs() returned a list, or raised.
Listed(l) == [ok |-> TRUE, list |-> l]
ListFail == [ok |-> FALSE, list |-> <<>>]

Larger(a, b) == IF a > b THEN a ELSE b
Smaller(a, b) == IF a < b THEN a ELSE b

\* The ordinary readings of both sources.
Ordinary == [g |-> OrdinaryGPUtil, n |-> OrdinaryNvml]

\* What the sources say about m devices during one call: at most one device
\* deviates from the ordinary readings, or all m deviate in the same way.
Assignments(m) ==
    { [k \in 1..m |-> IF k = d THEN r ELSE Ordinary] :
          d \in 1..m, r \in DeviceSources }
    \cup { [k \in 1..m |-> r] : r \in DeviceSources }

\* What the sources answer during one call: GPUtil lists n devices and NVML
\* answers on each of the h handles.
Answers(n, h) ==
    { [listing |-> [k \in 1..n |-> GPU(k, f[k].g)],
       nvml |-> [k \in 1..h |-> f[k].n]] :
          f \in Assignments(Larger(n, h)) }

SourceTable ==
    [h \in 0..MaxDevices |-> UNION { Answers(n, h) : n \in 0..MaxDevices }]

\* After nvmlShutdown every NVML call raises NVMLError_Uninitialized.
ShutDownNvml ==
    [util |-> Fail, mem |-> NvmlMemFail, temp |-> Fail, thresh |-> Fail]
ShutDownTable ==
    [h \in 0..MaxDevices |->
        { [listing |-> s.listing, nvml |-> [k \in 1..h |-> ShutDownNvml]] :
              s \in SourceTable[h] }]

\* The monitor has shut its NVML session down (it is the only holder of
\* one in the process: the main window constructs a single GPUMonitor).
SessionShut == session.shutdowns > 0

Sources(h) == IF SessionShut THEN ShutDownTable[h] ELSE SourceTable[h]

\* The lists GPUtil.getGPUs() can return, and the NVML answers on h handles.
Listings == { s.listing : s \in Sources(0) }
NvmlAnswerTable == [h \in 0..MaxDevices |-> { s.nvml : s \in Answers(0, h) }]
NvmlAnswers(h) ==
    IF SessionShut THEN { [k \in 1..h |-> ShutDownNvml] }
    ELSE NvmlAnswerTable[h]

----------------------------------------------------------------------------
(* What a call leaves in `ret`. *)

\* value: the returned list.  t: when the call was made, for a get_gpu_info
\* call (0 for the other methods).  due: the call came at least
\* update_interval after self.last_update.  read: the call queried a source.
\* nvml: the NVML answers get_gpu_info read.
\* built: per entry of a get_gpu_info result, the device whose turn appended
\* it (0 when GPUtil's listing failed) and whether it was built from that
\* device's reading (fresh) or is the last valid sample.
\* done: the devices whose read completed during the call (for
\* get_gpu_temperature, the devices a source answered for).
\* asked: the sources the call turned to.
Result(op, value, read, nvml, built, done, asked) ==
    [op |-> op, t |-> IF op = "get_gpu_info" THEN now ELSE 0,
     due |-> (now - last_update >= update_interval),
     value |-> value, read |-> read, nvml |-> nvml, built |-> built,
     done |-> done, asked |-> asked]

\* The sources a call turned to: the handles it issued NVML queries on, how
\* its call of GPUtil.getGPUs() ended ("none" when it made no such call),
\* and whether it queried the OS sensor subsystem.
Asked(nvml, gputil, wmi) == [nvml |-> nvml, gputil |-> gputil, wmi |-> wmi]
NoneAsked == Asked({}, "none", FALSE)

Entry(dev, fresh) == [dev |-> dev, fresh |-> fresh]

\* Line 123 (and 207, 249): the call is served from the cache.
CacheFreshLate == now - last_update <= update_interval
CacheFresh == now - last_update < update_interval

\* No such call (a call is made at StartTime or later).
NoCall == [t |-> 0, v |-> <<>>, listed |-> "none"]

\* The get_gpu_info call before this one, when this call follows it directly
\* and less than update_interval later: its time, its result and how its
\* call of GPUtil.getGPUs() ended.
PrevInfo ==
    IF ret.op = "get_gpu_info" /\ now - ret.t < update_interval
    THEN [t |-> ret.t, v |-> ret.value, listed |-> ret.asked.gputil]
    ELSE NoCall

----------------------------------------------------------------------------
(* get_gpu_info, lines 112-197. *)

\* Lines 176-181: the check of the memory values of a sample.
SanitizeMemory(info) ==
    IF info.total_memory > 0
    THEN LET used == IF info.used_memory > info.total_memory
                     THEN info.total_memory ELSE info.used_memory
             free == IF info.free_memory > info.total_memory
                     THEN info.total_memory - used ELSE info.free_memory
         IN  [info EXCEPT !.used_memory = used, !.free_memory = free]
    ELSE info

\* Lines 142-145 and 160-163: a load below zero is replaced by the last
\* valid load; any other load is kept (and becomes the last valid load).
ReplaceNegative(load, lvl) == IF PyLt(load, Num(0)) THEN lvl ELSE load

\* Lines 136-156: one device read through NVML.  The three NVML calls come
\* first; one that raises ends the read with nothing changed.
NvmlSample(gpu, r, lvl) ==
    IF ~(r.util.ok /\ r.mem.ok /\ r.temp.ok)
    THEN [raised |-> TRUE, lvl |-> lvl, info |-> None]
    ELSE LET load == ReplaceNegative(Num(r.util.v), lvl)
         IN  [raised |-> FALSE, lvl |-> load,
              info |-> [id |-> gpu.id, name |-> gpu.name, load |-> load,
                        free_memory |-> r.mem.free \div MiB,
                        total_memory |-> r.mem.total \div MiB,
                        used_memory |-> r.mem.used \div MiB,
                        temperature |-> Num(r.temp.v), uuid |-> gpu.uuid]]

\* int(x) if x is not None else 0
IntOrZero(x) == IF x # None THEN PyInt(x) ELSE 0

\* Lines 158-174: one device read through GPUtil.  The last valid load is
\* assigned (line 163) before the sample is built, and int() of a size that
\* is NaN raises while it is built.
GPUtilSample(gpu, lvl) ==
    LET load == ReplaceNegative(IF gpu.load # None THEN gpu.load ELSE lvl, lvl)
    IN  IF \/ IntRaises(gpu.memoryFree)
           \/ IntRaises(gpu.memoryTotal)
           \/ IntRaises(gpu.memoryUsed)
        THEN [raised |-> TRUE, lvl |-> load, info |-> None]
        ELSE [raised |-> FALSE, lvl |-> load,
              info |-> [id |-> gpu.id, name |-> gpu.name, load |-> load,
                        free_memory |-> IntOrZero(gpu.memoryFree),
                        total_memory |-> IntOrZero(gpu.memoryTotal),
                        used_memory |-> IntOrZero(gpu.memoryUsed),
                        temperature |-> IF gpu.temperature # None
                                        THEN gpu.temperature ELSE Num(0),
                        uuid |-> gpu.uuid]]

\* Line 134: the i-th listed device is read through NVML.
ViaNvml(i) == nvml_initialized /\ i <= Len(handles)

\* Lines 183-190: what one device's read leaves behind.  A read that
\* completed stores its sample as the last valid one and appends it; a read
\* that raised appends the last valid sample, if there is one.
AfterRead(st, i, r) ==
    IF r.raised
    THEN [lvl |-> r.lvl, lvi |-> st.lvi,
          out |-> IF st.lvi # None THEN Append(st.out, st.lvi) ELSE st.out,
          built |-> IF st.lvi # None
                    THEN Append(st.built, Entry(i, FALSE)) ELSE st.built,
          done |-> st.done]
    ELSE LET info == SanitizeMemory(r.info)
         IN  [lvl |-> r.lvl, lvi |-> info, out |-> Append(st.out, info),
              built |-> Append(st.built, Entry(i, TRUE)),
              done |-> st.done \cup {i}]

\* Lines 132-190: the loop over the listed devices, from device i on.
RECURSIVE InfoLoop(_, _, _, _)
InfoLoop(i, listing, answers, st) ==
    IF i > Len(listing) THEN st
    ELSE LET r == IF ViaNvml(i)
                  THEN NvmlSample(listing[i], answers[i], st.lvl)
                  ELSE GPUtilSample(listing[i], st.lvl)
         IN  InfoLoop(i + 1, listing, answers, AfterRead(st, i, r))

\* Lines 123-124 (and 194-195): the last valid sample, as a list.
CachedInfo == IF last_valid_info # None THEN <<last_valid_info>> ELSE <<>>

\* get_gpu_info within update_interval of the last refresh (lines 123-124).
GetGpuInfoHit ==
    /\ CacheFresh
    /\ ret' = Result("get_gpu_info", CachedInfo, FALSE, <<>>, <<>>, {},
                     NoneAsked)
    /\ prev' = PrevInfo
    /\ UNCHANGED <<fields, now, os_name, init_log,
                   session, host, window>>

\* A get_gpu_info that stamps last_update only once the listing has
\* succeeded: when GPUtil.getGPUs() raises, the stamp is left as it was.
GetGpuInfoListFailsUnstamped ==
    /\ ~CacheFresh
    /\ ret' = Result("get_gpu_info", CachedInfo, TRUE, <<>>,
                     IF last_valid_info # None
                     THEN <<Entry(0, FALSE)>> ELSE <<>>, {},
                     Asked({}, "raised", FALSE))
    /\ prev' = PrevInfo
    /\ UNCHANGED <<fields, now, os_name, init_log,
                   session, host, window>>

\* get_gpu_info when GPUtil.getGPUs() raises (lines 126-130, 192-195).
GetGpuInfoListFails ==
    /\ ~CacheFresh
    /\ last_update' = now
    /\ ret' = Result("get_gpu_info", CachedInfo, TRUE, <<>>,
                     IF last_valid_info # None
                     THEN <<Entry(0, FALSE)>> ELSE <<>>, {},
                     Asked({}, "raised", FALSE))
    /\ prev' = PrevInfo
    /\ UNCHANGED <<nvml_initialized, handles, last_valid_load,
                   last_valid_info, gpus, now, os_name, init_log,
                   session, host, window>>

\* get_gpu_info when it refreshes from the sources (lines 126-190, 197).
GetGpuInfoRefresh ==
    /\ ~CacheFresh
    /\ \E s \in Sources(IF nvml_initialized THEN Len(handles) ELSE 0) :
         LET nread == IF nvml_initialized
                      THEN Smaller(Len(s.listing), Len(handles)) ELSE 0
             st == InfoLoop(1, s.listing, s.nvml,
                            [lvl |-> last_valid_load, lvi |-> last_valid_info,
                             out |-> <<>>, built |-> <<>>, done |-> {}])
         IN  /\ last_update' = now
             /\ gpus' = s.listing
             /\ last_valid_load' = st.lvl
             /\ last_valid_info' = st.lvi
             /\ ret' = Result("get_gpu_info", st.out, TRUE,
                              [k \in 1..nread |-> s.nvml[k]], st.built,
                              st.done, Asked(1..nread, "ok", FALSE))
    /\ prev' = PrevInfo
    /\ UNCHANGED <<nvml_initialized, handles, now, os_name, init_log,
                   session, host, window>>

GetGpuInfo == GetGpuInfoHit \/ GetGpuInfoListFails \/ GetGpuInfoRefresh

----------------------------------------------------------------------------
(* get_gpu_usage, lines 199-239. *)

\* Lines 216-220 and 230-234: a load that is >= 0 becomes the last valid
\* load; any other load (a negative one, NaN) is replaced by it.
ValidLoad(load, lvl) == IF PyGe(load, Num(0)) THEN load ELSE lvl

\* Lines 213-223: the loop over the handles, from handle i on.  A read of
\* the utilization that raises appends the last valid load.
RECURSIVE NvmlUsageLoop(_, _, _)
NvmlUsageLoop(i, answers, st) ==
    IF i > Len(handles) THEN st
    ELSE LET u == answers[i].util
             load == IF u.ok THEN ValidLoad(Num(u.v), st.lvl) ELSE st.lvl
         IN  NvmlUsageLoop(i + 1, answers,
                 [lvl |-> load, out |-> Append(st.out, load),
                  done |-> IF u.ok /\ PyGe(Num(u.v), Num(0))
                           THEN st.done \cup {i} ELSE st.done])

\* Lines 229-235: the loop over the listed devices, from device i on.
RECURSIVE GPUtilUsageLoop(_, _, _)
GPUtilUsageLoop(i, listing, st) ==
    IF i > Len(listing) THEN st
    ELSE LET raw == IF listing[i].load # None THEN listing[i].load ELSE st.lvl
             load == ValidLoad(raw, st.lvl)
         IN  GPUtilUsageLoop(i + 1, listing,
                 [lvl |-> load, out |-> Append(st.out, load),
                  done |-> IF listing[i].load # None /\ PyGe(raw, Num(0))
                           THEN st.done \cup {i} ELSE st.done])

\* Lines 224 and 236: return usage if usage else [self.last_valid_load]
UsageOr(out, lvl) == IF out # <<>> THEN out ELSE <<lvl>>

\* get_gpu_usage within update_interval of the last refresh (lines 207-208).
GetGpuUsageHit ==
    /\ CacheFresh
    /\ ret' = Result("get_gpu_usage", <<last_valid_load>>, FALSE, <<>>,
                     <<>>, {}, NoneAsked)
    /\ prev' = NoCall
    /\ UNCHANGED <<fields, now, os_name, init_log,
                   session, host, window>>

\* get_gpu_usage through NVML (lines 211-224).
GetGpuUsageNvml ==
    /\ ~CacheFresh
    /\ nvml_initialized
    /\ \E answers \in NvmlAnswers(Len(handles)) :
         LET st == NvmlUsageLoop(1, answers,
                       [lvl |-> last_valid_load, out |-> <<>>, done |-> {}])
         IN  /\ last_valid_load' = st.lvl
             /\ ret' = Result("get_gpu_usage", UsageOr(st.out, st.lvl), TRUE,
                              <<>>, <<>>, st.done,
                              Asked(1..Len(handles), "none", FALSE))
    /\ prev' = NoCall
    /\ UNCHANGED <<nvml_initialized, handles, last_update, last_valid_info,
                   gpus, now, os_name, init_log,
                   session, host, window>>

\* get_gpu_usage through GPUtil (lines 225-236).
GetGpuUsageGPUtil ==
    /\ ~CacheFresh
    /\ ~nvml_initialized
    /\ \E listing \in Listings :
         LET st == GPUtilUsageLoop(1, listing,
                       [lvl |-> last_valid_load, out |-> <<>>, done |-> {}])
         IN  /\ gpus' = listing
             /\ last_valid_load' = st.lvl
             /\ ret' = Result("get_gpu_usage", UsageOr(st.out, st.lvl), TRUE,
                              <<>>, <<>>, st.done, Asked({}, "ok", FALSE))
    /\ prev' = NoCall
    /\ UNCHANGED <<nvml_initialized, handles, last_update, last_valid_info,
                   now, os_name, init_log,
                   session, host, window>>

\* A get_gpu_usage that stamps last_update on a cache miss, the way
\* get_gpu_info does.
GetGpuUsageListFailsStamping ==
    /\ ~CacheFresh
    /\ ~nvml_initialized
    /\ last_update' = now
    /\ ret' = Result("get_gpu_usage", <<last_valid_load>>, TRUE, <<>>,
                     <<>>, {}, Asked({}, "raised", FALSE))
    /\ prev' = NoCall
    /\ UNCHANGED <<nvml_initialized, handles, last_valid_load,
                   last_valid_info, gpus, now, os_name, init_log,
                   session, host, window>>

\* get_gpu_usage when GPUtil.getGPUs() raises (lines 227, 237-239).
GetGpuUsageListFails ==
    /\ ~CacheFresh
    /\ ~nvml_initialized
    /\ ret' = Result("get_gpu_usage", <<last_valid_load>>, TRUE, <<>>,
                     <<>>, {}, Asked({}, "raised", FALSE))
    /\ prev' = NoCall
    /\ UNCHANGED <<fields, now, os_name, init_log,
                   session, host, window>>

GetGpuUsage ==
    GetGpuUsageHit \/ GetGpuUsageNvml \/ GetGpuUsageGPUtil
        \/ GetGpuUsageListFails

----------------------------------------------------------------------------
(* get_gpu_memory_usage, lines 241-302. *)

\* used / total * 100 if total > 0 else 0, kept as a fraction.
Utilization(used, total) ==
    IF total > 0 THEN [num |-> used * 100, den |-> total]
    ELSE [num |-> 0, den |-> 1]

MemoryEntry(total, used, free, utilization) ==
    [total |-> total, used |-> used, free |-> free,
     utilization |-> utilization]

\* Lines 250-258: the memory figures of the last valid sample.
CachedMemory ==
    IF last_valid_info # None
    THEN <<MemoryEntry(last_valid_info.total_memory,
                       last_valid_info.used_memory,
                       last_valid_info.free_memory,
                       Utilization(last_valid_info.used_memory,
                                   last_valid_info.total_memory))>>
    ELSE <<>>

\* Lines 265-271: the entry of one handle; the sizes are converted to
\* megabytes, the utilization is computed from the bytes.
NvmlMemoryEntry(m) ==
    MemoryEntry(m.total \div MiB, m.used \div MiB, m.free \div MiB,
                Utilization(m.used, m.total))

\* Lines 263-274: the loop over the handles; a handle whose read raises
\* gets no entry.
RECURSIVE NvmlMemoryLoop(_, _, _)
NvmlMemoryLoop(i, answers, out) ==
    IF i > Len(handles) THEN out
    ELSE NvmlMemoryLoop(i + 1, answers,
             IF answers[i].mem.ok
             THEN Append(out, NvmlMemoryEntry(answers[i].mem)) ELSE out)

\* Lines 279-295: the entry of one listed device.
GPUtilMemoryEntry(gpu) ==
    LET total == IntOrZero(gpu.memoryTotal)
        used0 == IntOrZero(gpu.memoryUsed)
        free0 == IntOrZero(gpu.memoryFree)
        used == IF total > 0 /\ used0 > total THEN total ELSE used0
        free == IF total > 0 /\ free0 > total THEN total - used ELSE free0
    IN  MemoryEntry(total, used, free, Utilization(used, total))

\* Lines 277-298: the loop over the listed devices; a device with a size
\* int() cannot convert gets no entry.
RECURSIVE GPUtilMemoryLoop(_, _, _)
GPUtilMemoryLoop(i, listing, out) ==
    IF i > Len(listing) THEN out
    ELSE LET gpu == listing[i]
             raises == \/ IntRaises(gpu.memoryTotal)
                       \/ IntRaises(gpu.memoryUsed)
                       \/ IntRaises(gpu.memoryFree)
         IN  GPUtilMemoryLoop(i + 1, listing,
                 IF raises THEN out ELSE Append(out, GPUtilMemoryEntry(gpu)))

\* get_gpu_memory_usage within update_interval of the last refresh.
GetGpuMemoryUsageHit ==
    /\ CacheFresh
    /\ ret' = Result("get_gpu_memory_usage", CachedMemory, FALSE, <<>>,
                     <<>>, {}, NoneAsked)
    /\ prev' = NoCall
    /\ UNCHANGED <<fields, now, os_name, init_log,
                   session, host, window>>

\* get_gpu_memory_usage through NVML (lines 262-274).
GetGpuMemoryUsageNvml ==
    /\ ~CacheFresh
    /\ nvml_initialized
    /\ \E answers \in NvmlAnswers(Len(handles)) :
         ret' = Result("get_gpu_memory_usage",
                       NvmlMemoryLoop(1, answers, <<>>), TRUE, <<>>, <<>>, {},
                       Asked(1..Len(handles), "none", FALSE))
    /\ prev' = NoCall
    /\ UNCHANGED <<fields, now, os_name, init_log,
                   session, host, window>>

\* get_gpu_memory_usage through GPUtil (lines 275-298).
GetGpuMemoryUsageGPUtil ==
    /\ ~CacheFresh
    /\ ~nvml_initialized
    /\ \E listing \in Listings :
         /\ gpus' = listing
         /\ ret' = Result("get_gpu_memory_usage",
                          GPUtilMemoryLoop(1, listing, <<>>), TRUE, <<>>,
                          <<>>, {}, Asked({}, "ok", FALSE))
    /\ prev' = NoCall
    /\ UNCHANGED <<nvml_initialized, handles, last_update, last_valid_load,
                   last_valid_info, now, os_name, init_log,
                   session, host, window>>

\* get_gpu_memory_usage when GPUtil.getGPUs() raises (lines 276, 299-302).
GetGpuMemoryUsageListFails ==
    /\ ~CacheFresh
    /\ ~nvml_initialized
    /\ ret' = Result("get_gpu_memory_usage", <<>>, TRUE, <<>>, <<>>, {},
                     Asked({}, "raised", FALSE))
    /\ prev' = NoCall
    /\ UNCHANGED <<fields, now, os_name, init_log,
                   session, host, window>>

GetGpuMemoryUsage ==
    GetGpuMemoryUsageHit \/ GetGpuMemoryUsageNvml
        \/ GetGpuMemoryUsageGPUtil \/ GetGpuMemoryUsageListFails

----------------------------------------------------------------------------
(* get_gpu_temperature, lines 304-382. *)

\* temp is not None and temp > 0
Positive(x) == PyGt(x, Num(0))

\* Lines 330-338 and 342-350: the temperature GPUtil listed for the device
\* at index len(temps), or 0.0.
GPUtilFallback(idx) ==
    IF idx <= Len(gpus) /\ Positive(gpus[idx].temperature)
    THEN gpus[idx].temperature ELSE Num(0)

\* Lines 315-350: the entry of one handle: NVML's temperature, else NVML's
\* shutdown threshold, else what GPUtil listed.
NvmlTemperature(r, idx) ==
    IF r.temp.ok /\ r.temp.v > 0 THEN Num(r.temp.v)
    ELSE IF r.temp.ok /\ r.thresh.ok /\ r.thresh.v > 0 THEN Num(r.thresh.v)
    ELSE GPUtilFallback(idx)

\* The turn of handle i, which looked at index idx of self.gpus for its
\* fallback.
Turn(i, idx) == [dev |-> i, idx |-> idx]

\* A loop body that appends an entry only for a handle with a positive
\* reading from one of the sources.
NvmlTemperatureTurnSkipping(st, i, r) ==
    LET idx == Len(st.temps) + 1
        temp == NvmlTemperature(r, idx)
    IN  IF Positive(temp)
        THEN [temps |-> Append(st.temps, temp),
              built |-> Append(st.built, Turn(i, idx))]
        ELSE st

\* Lines 315-350: the body of the loop for handle i: every branch appends
\* one entry; gpu_idx = len(temps) is the number of entries appended so far
\* (lines 331, 342).
NvmlTemperatureTurn(st, i, r) ==
    LET idx == Len(st.temps) + 1
    IN  [temps |-> Append(st.temps, NvmlTemperature(r, idx)),
         built |-> Append(st.built, Turn(i, idx))]

\* Lines 314-350: the loop over the handles.
RECURSIVE NvmlTemperatureLoop(_, _, _)
NvmlTemperatureLoop(i, answers, st) ==
    IF i > Len(handles) THEN st
    ELSE NvmlTemperatureLoop(i + 1, answers,
                             NvmlTemperatureTurn(st, i, answers[i]))

\* Lines 355-359: one entry per device GPUtil lists.
GPUtilTemperatures(listing) ==
    [k \in 1..Len(listing) |->
        IF Positive(listing[k].temperature) THEN listing[k].temperature
        ELSE Num(0)]

\* What the OS sensor subsystem answers (lines 368-376): an error, or the
\* values of its GPU temperature sensors.
WmiSensors ==
    { [ok |-> FALSE, v |-> <<>>], [ok |-> TRUE, v |-> <<>>],
      [ok |-> TRUE, v |-> <<Num(65)>>] }

\* Lines 365-367: the OS sensors are asked.
AsksWmi(temps) == temps = <<>> /\ os_name = "nt"

\* The answers of the OS sensors that a call with these entries can see.
WmiAnswers(temps) ==
    IF AsksWmi(temps) THEN WmiSensors ELSE {[ok |-> FALSE, v |-> <<>>]}

\* Lines 365-378: with no entry so far, the OS sensors are asked on Windows;
\* with no entry after that, the result is [0.0].
TemperatureResult(temps, wmi) ==
    LET more == IF AsksWmi(temps) /\ wmi.ok THEN wmi.v ELSE temps
    IN  IF more # <<>> THEN more ELSE <<Num(0)>>

\* The devices one of the sources answered for during the call: the OS
\* sensors when they were asked and answered, else the devices gone through.
Answered(temps, wmi, devices) ==
    IF AsksWmi(temps) /\ wmi.ok THEN 1..Len(wmi.v) ELSE devices

\* What lines 355-362 can build: one entry per listed device, or the single
\* entry 0.0 when GPUtil.getGPUs() raises.
GPUtilTemperatureLists ==
    { [temps |-> GPUtilTemperatures(l), devices |-> 1..Len(l),
       listed |-> "ok"] : l \in Listings }
    \cup { [temps |-> <<Num(0)>>, devices |-> {}, listed |-> "raised"] }

\* get_gpu_temperature through NVML (lines 313-350).
GetGpuTemperatureNvml ==
    /\ nvml_initialized
    /\ \E st \in { NvmlTemperatureLoop(1, answers,
                                         [temps |-> <<>>, built |-> <<>>]) :
                       answers \in NvmlAnswers(Len(handles)) } :
         \E wmi \in WmiAnswers(st.temps) :
            ret' = Result("get_gpu_temperature",
                          TemperatureResult(st.temps, wmi), TRUE, <<>>,
                          st.built,
                          Answered(st.temps, wmi, 1..Len(handles)),
                          Asked(1..Len(handles), "none", AsksWmi(st.temps)))
    /\ prev' = NoCall
    /\ UNCHANGED <<fields, now, os_name, init_log,
                   session, host, window>>

\* get_gpu_temperature through GPUtil (lines 351-362); a listing that
\* raises leaves the single entry 0.0.
GetGpuTemperatureGPUtil ==
    /\ ~nvml_initialized
    /\ \E l \in GPUtilTemperatureLists :
         \E wmi \in WmiAnswers(l.temps) :
            ret' = Result("get_gpu_temperature",
                          TemperatureResult(l.temps, wmi), TRUE, <<>>, <<>>,
                          Answered(l.temps, wmi, l.devices),
                          Asked({}, l.listed, AsksWmi(l.temps)))
    /\ prev' = NoCall
    /\ UNCHANGED <<fields, now, os_name, init_log,
                   session, host, window>>

GetGpuTemperature == GetGpuTemperatureNvml \/ GetGpuTemperatureGPUtil

----------------------------------------------------------------------------
(* calculate_gpu_score, lines 384-410. *)

\* 1024*1024*1024, the divisor that turns NVML's bytes into gigabytes, and
\* 1024, the divisor that turns GPUtil's megabytes into gigabytes.
GiBytes == 1073741824
MBPerGB == 1024

\* A float that is the fraction n / d, and the float NaN.
Ratio(n, d) == [t |-> "num", n |-> n, d |-> d]
NaNRatio == [t |-> "nan", n |-> 0, d |-> 1]

\* total_score += score, on fractions of one denominator; NaN is absorbing.
AddScore(total, n) ==
    IF total.t = "nan" THEN total ELSE [total EXCEPT !.n = @ + n]

\* Lines 394-401: the loop over the handles, from handle i on.  A handle
\* whose utilization or memory read raises contributes nothing.
RECURSIVE NvmlScoreLoop(_, _, _)
NvmlScoreLoop(i, answers, st) ==
    IF i > Len(handles) THEN st
    ELSE LET r == answers[i]
         IN  NvmlScoreLoop(i + 1, answers,
                IF r.util.ok /\ r.mem.ok
                THEN [total |-> AddScore(st.total,
                                         (100 - r.util.v) * r.mem.total),
                      done |-> st.done \cup {i}]
                ELSE st)

\* Lines 403-406: the loop over the devices GPUtil lists.  A device whose
\* memoryTotal or load is None contributes nothing; one whose load or
\* memoryTotal is NaN makes the total NaN.
RECURSIVE GPUtilScoreLoop(_, _, _)
GPUtilScoreLoop(i, listing, st) ==
    IF i > Len(listing) THEN st
    ELSE LET gpu == listing[i]
         IN  GPUtilScoreLoop(i + 1, listing,
                IF gpu.memoryTotal # None /\ gpu.load # None
                THEN [total |-> IF gpu.load.t = "num"
                                   /\ gpu.memoryTotal.t = "num"
                                THEN AddScore(st.total,
                                         (100 - gpu.load.v) * gpu.memoryTotal.v)
                                ELSE NaNRatio,
                      done |-> st.done \cup {i}]
                ELSE st)

\* The sources a call turned to when GPUtil.getGPUs() returned a listing
\* that the call does not keep in self.gpus.
AskedListing(listing) ==
    [nvml |-> {}, gputil |-> "ok", wmi |-> FALSE, listing |-> listing]

\* calculate_gpu_score through NVML (lines 393-401, 407).
CalculateGpuScoreNvml ==
    /\ nvml_initialized
    /\ \E answers \in NvmlAnswers(Len(handles)) :
         LET st == NvmlScoreLoop(1, answers,
                                 [total |-> Ratio(0, GiBytes), done |-> {}])
         IN  ret' = Result("calculate_gpu_score", st.total, TRUE, answers,
                           <<>>, st.done,
                           Asked(1..Len(handles), "none", FALSE))
    /\ prev' = NoCall
    /\ UNCHANGED <<fields, now, os_name, init_log,
                   session, host, window>>

\* calculate_gpu_score through GPUtil (lines 402-407).
CalculateGpuScoreGPUtil ==
    /\ ~nvml_initialized
    /\ \E listing \in Listings :
         LET st == GPUtilScoreLoop(1, listing,
                                   [total |-> Ratio(0, MBPerGB), done |-> {}])
         IN  ret' = Result("calculate_gpu_score", st.total, TRUE, <<>>, <<>>,
                           st.done, AskedListing(listing))
    /\ prev' = NoCall
    /\ UNCHANGED <<fields, now, os_name, init_log,
                   session, host, window>>

\* calculate_gpu_score when GPUtil.getGPUs() raises (lines 403, 408-410).
CalculateGpuScoreListFails ==
    /\ ~nvml_initialized
    /\ ret' = Result("calculate_gpu_score", Ratio(0, MBPerGB), TRUE, <<>>,
                     <<>>, {}, Asked({}, "raised", FALSE))
    /\ prev' = NoCall
    /\ UNCHANGED <<fields, now, os_name, init_log,
                   session, host, window>>

CalculateGpuScore ==
    CalculateGpuScoreNvml \/ CalculateGpuScoreGPUtil
        \/ CalculateGpuScoreListFails

----------------------------------------------------------------------------
(* __init__, lines 18-70. *)

\* How the NVML part of the constructor (lines 30-39) can end: the import of
\* pynvml failed (NVML_AVAILABLE is False), nvmlInit or nvmlDeviceGetCount
\* raised, nvmlDeviceGetHandleByIndex raised after `got` handles, or all the
\* handles were obtained.
NvmlOutcome(kind, got) == [kind |-> kind, got |-> got]

\* How the probe of the OS sensor subsystem (lines 50-66) can end.
WmiOutcomes == {"error", "no_gpu_sensor", "gpu_sensor"}

\* The listing of n devices with ordinary readings.
OrdinaryListing(n) == [k \in 1..n |-> GPU(k, OrdinaryGPUtil)]

ConstructEnv(nv, listed, os, wmi) ==
    [nvml |-> nv, gputil |-> listed, os |-> os, wmi |-> wmi]

\* The machines the monitor is constructed on: every way the NVML part can
\* end, with GPUtil working or not, and every outcome of the OS sensors.
ConstructEnvs ==
    \* Windows, no working NVIDIA tool: GPUtil raises, the OS sensors decide
    { ConstructEnv(NvmlOutcome("import_error", 0), ListFail, "nt", "error"),
      ConstructEnv(NvmlOutcome("init_error", 0), ListFail, "nt",
                   "no_gpu_sensor"),
      ConstructEnv(NvmlOutcome("count_error", 0), ListFail, "nt",
                   "gpu_sensor") }
    \* NVML fails while it enumerates the handles, GPUtil lists the devices
    \cup { ConstructEnv(NvmlOutcome("handle_error", MaxDevices - 1),
                        Listed(OrdinaryListing(MaxDevices)), "posix",
                        "error") }
    \* NVML works on n devices and GPUtil lists them
    \cup { ConstructEnv(NvmlOutcome("ok", n), Listed(OrdinaryListing(n)),
                        "posix", "error") : n \in 0..MaxDevices }

Probe(adapter, outcome) == [adapter |-> adapter, outcome |-> outcome]

\* Lines 42-46: self.gpus after the GPUtil probe.
InitGpus(listed) == IF listed.ok THEN listed.list ELSE <<>>

\* Line 49: the OS sensor subsystem is probed.
ProbesWmi(e) == InitGpus(e.gputil) = <<>> /\ e.os = "nt"

\* Lines 32-33: nvmlInit() returned, so an NVML session is open, whatever
\* the calls after it do.
NvmlInitDone(kind) == kind \in {"count_error", "handle_error", "ok"}

\* The monitor after __init__ has run on machine e.
\* The flag as line 33 sets it, without the reset of the handler.
FlagNeverReset(kind) == NvmlInitDone(kind)

\* Lines 33-39: self.nvml_initialized is set when nvmlInit() has returned,
\* and the handler resets it when nvmlInit() or a call after it raises.
NvmlInitialized(kind) == kind = "ok"

Construct(e) ==
    /\ nvml_initialized = NvmlInitialized(e.nvml.kind)
    /\ handles = [i \in 1..e.nvml.got |-> i]
    /\ last_update = 0
    /\ last_valid_load = Num(0)
    /\ last_valid_info = None
    /\ gpus = IF ProbesWmi(e) /\ e.wmi = "gpu_sensor"
              THEN <<StandIn>> ELSE InitGpus(e.gputil)
    /\ os_name = e.os
    /\ session = [opened |-> NvmlInitDone(e.nvml.kind), shutdowns |-> 0,
                  deleted |-> 0]
    /\ init_log =
         (IF e.nvml.kind = "import_error" THEN <<>>
          ELSE <<Probe("nvml", e.nvml.kind)>>)
         \o <<Probe("gputil", IF e.gputil.ok THEN "ok" ELSE "error")>>
         \o (IF ProbesWmi(e) THEN <<Probe("wmi", e.wmi)>> ELSE <<>>)

\* No call has been made since construction.
Constructed ==
    /\ now = StartTime
    /\ ret = [op |-> "__init__", t |-> 0, due |-> TRUE,
              value |-> <<>>, read |-> TRUE, nvml |-> <<>>, built |-> <<>>,
              done |-> {}, asked |-> NoneAsked]
    /\ prev = NoCall

\* The monitor is used without the main window.
NoWindow ==
    /\ cpu_usage_data = <<>> /\ gpu_usage_data = <<>>
    /\ ram_usage_data = <<>>
    /\ gpu_figure = FALSE /\ gpu_labels = 0
    /\ stage = "none" /\ ticks = 0 /\ upsets = 0

\* The keys get_cpu_info reads from the dictionary cpuinfo.get_cpu_info()
\* returned at construction.
CpuInfoKeys == {"brand_raw", "arch"}

\* CPUMonitor.__init__ (src/hardware/cpu_info.py, lines 11-15) and
\* StorageMonitor.__init__ (src/hardware/storage_info.py, lines 12-14) on a
\* machine with n volumes whose CPU description holds the keys info; no call
\* into the CPU, RAM or storage monitor yet.
NoHostCall == [op |-> "none", raised |-> FALSE, value |-> <<>>, env |-> <<>>]
HostConstruct(n, info) ==
    /\ cpu_info = info
    /\ partitions = [k \in 1..n |-> k]
    /\ tmp_files = {}
    /\ call = NoHostCall

Init ==
    /\ \E e \in ConstructEnvs : Construct(e)
    /\ Constructed
    /\ HostConstruct(MaxVolumes, CpuInfoKeys)
    /\ NoWindow

----------------------------------------------------------------------------
\* Time passes between two calls.
Tick ==
    /\ \E d \in TickSteps : now + d <= MaxTime /\ now' = now + d
    /\ UNCHANGED <<fields, os_name, init_log, ret, prev,
                   session, host, window>>

Next ==
    \/ GetGpuInfo
    \/ GetGpuUsage
    \/ GetGpuMemoryUsage
    \/ GetGpuTemperature
    \/ Tick

Spec == Init /\ [][Next]_vars

----------------------------------------------------------------------------
(* The life of a monitor: construction on any machine, teardown, and the  *)
(* call that follows a teardown.                                           *)

\* Every way the three probes of __init__ can end.
NvmlOutcomes ==
    { NvmlOutcome(k, 0) : k \in {"import_error", "init_error", "count_error"} }
    \cup { NvmlOutcome("handle_error", n) : n \in 0..(MaxDevices - 1) }
    \cup { NvmlOutcome("ok", n) : n \in 0..MaxDevices }

AllConstructEnvs ==
    { ConstructEnv(nv, listed, os, wmi) :
          nv \in NvmlOutcomes,
          listed \in {ListFail}
                      \cup { Listed(OrdinaryListing(n)) : n \in 0..MaxDevices },
          os \in {"nt", "posix"},
          wmi \in WmiOutcomes }

\* __del__ (lines 96-102): nvmlShutdown() is called when nvml_initialized
\* is set, and an exception it raises is swallowed; no field is changed.
Del ==
    /\ session.deleted < MaxTeardowns
    /\ session' = [session EXCEPT
                      !.deleted = @ + 1,
                      !.shutdowns = IF nvml_initialized THEN @ + 1 ELSE @]
    /\ ret' = Result("__del__", <<>>, FALSE, <<>>, <<>>, {}, NoneAsked)
    /\ prev' = NoCall
    /\ UNCHANGED <<fields, now, os_name, init_log, host, window>>

\* __del__ has been called on the monitor, and the latest call was __del__.
TornDown == session.deleted > 0
JustTornDown == ret.op = "__del__"

LifeInit ==
    /\ \E e \in AllConstructEnvs : Construct(e)
    /\ Constructed
    /\ HostConstruct(MaxVolumes, CpuInfoKeys)
    /\ NoWindow

LifeNext ==
    \/ Del
    \/ JustTornDown /\ GetGpuInfo
    \/ JustTornDown /\ GetGpuUsage
    \/ JustTornDown /\ GetGpuMemoryUsage
    \/ JustTornDown /\ GetGpuTemperature

LifeSpec == LifeInit /\ [][LifeNext]_vars

-----------------------------------------------------------------------------
(* The monitor with all five of its query methods, on three machines: a    *)
(* Windows machine without a working NVIDIA tool, a machine where NVML     *)
(* failed while it enumerated the handles, and one where NVML works.       *)

ScoreMachines ==
    { ConstructEnv(NvmlOutcome("count_error", 0), ListFail, "nt",
                   "gpu_sensor"),
      ConstructEnv(NvmlOutcome("handle_error", MaxDevices - 1),
                   Listed(OrdinaryListing(MaxDevices)), "posix", "error"),
      ConstructEnv(NvmlOutcome("ok", MaxDevices),
                   Listed(OrdinaryListing(MaxDevices)), "posix", "error") }

ScoreInit ==
    /\ \E e \in ScoreMachines : Construct(e)
    /\ Constructed
    /\ HostConstruct(MaxVolumes, CpuInfoKeys)
    /\ NoWindow

ScoreNext ==
    \/ GetGpuInfo
    \/ GetGpuUsage
    \/ GetGpuMemoryUsage
    \/ GetGpuTemperature
    \/ CalculateGpuScore
    \/ Tick

ScoreSpec == ScoreInit /\ [][ScoreNext]_vars

----------------------------------------------------------------------------
(* The CPU, RAM and storage monitors (src/hardware/cpu_info.py,            *)
(* ram_info.py, storage_info.py).                                          *)

\* The latest call into one of these monitors: what it returned, or that it
\* raised to the caller, and the answers of the machine it ran against.
HostResult(op, raised, value, env) ==
    [op |-> op, raised |-> raised, value |-> value, env |-> env]

\* A name is the sequence of the words it is made of; `word in name`.
Has(name, word) == \E i \in 1..Len(name) : name[i] = word

\* A string value of a result.
Text(words) == [t |-> "str", v |-> 0, s |-> words]

\* A library call that raised.
Raised == [ok |-> FALSE, v |-> <<>>]

\* str.lower() on the words that occur in names.
LowerWord(word) ==
    CASE word = "CPU" -> "cpu"
      [] word = "Core" -> "core"
      [] word = "Package" -> "package"
      [] OTHER -> word
Lower(name) == [i \in 1..Len(name) |-> LowerWord(name[i])]

\* float(x) raises TypeError on None.
FloatRaises(x) == x.t # "num"

\* mapping[key] = value
Put(mapping, key, value) ==
    [k \in (DOMAIN mapping) \cup {key} |->
        IF k = key THEN value ELSE mapping[k]]

\* not mapping
Empty(mapping) == DOMAIN mapping = {}

-----------------------------------------------------------------------------
(* CPUMonitor.get_cpu_temperature (src/hardware/cpu_info.py, 47-129). *)

\* A sensor of the OpenHardwareMonitor namespace.
Sensor(type, name, value) ==
    [SensorType |-> type, Name |-> name, Value |-> value]

\* Lines 62-64: the loop over the sensors; float(sensor.Value) may raise
\* with part of the sensors already stored.
RECURSIVE WmiTemperatures(_, _)
WmiTemperatures(sensors, temps) ==
    IF sensors = <<>> THEN [temps |-> temps, raised |-> FALSE]
    ELSE LET sensor == Head(sensors)
         IN  IF /\ sensor.SensorType = "Temperature"
                /\ (Has(sensor.Name, "CPU") \/ Has(sensor.Name, "Core"))
             THEN IF FloatRaises(sensor.Value)
                  THEN [temps |-> temps, raised |-> TRUE]
                  ELSE WmiTemperatures(Tail(sensors),
                                       Put(temps, sensor.Name, sensor.Value))
             ELSE WmiTemperatures(Tail(sensors), temps)

\* Lines 58-64: the WMI query raises, or its sensors are looped over.
WmiTier(wmi) ==
    IF wmi.ok THEN WmiTemperatures(wmi.v, <<>>)
    ELSE [temps |-> <<>>, raised |-> TRUE]

\* Lines 65-78: only when the WMI tier raised, MSI Afterburner is looked up
\* in the registry; if it is installed a placeholder 0 is stored.
MsiTier(tier1, msi) ==
    IF tier1.raised /\ msi = "installed"
    THEN Put(tier1.temps, <<"CPU">>, Num(0))
    ELSE tier1.temps

\* Line 86: the chip name, lowercased, contains cpu, core or package.
CpuChip(name) ==
    \E x \in {"cpu", "core", "package"} : Has(Lower(name), x)

\* Lines 87-90: the entries of one chip; an entry whose current reading is
\* falsy is skipped, an entry without label is named by its index.
RECURSIVE EntryTemperatures(_, _, _)
EntryTemperatures(entries, k, temps) ==
    IF k > Len(entries) THEN temps
    ELSE LET entry == entries[k]
             label == IF entry.label # <<>> THEN entry.label
                      ELSE <<"Core", ToString(k - 1)>>
         IN  EntryTemperatures(entries, k + 1,
                IF entry.current # 0
                THEN Put(temps, label, Num(entry.current)) ELSE temps)

\* Lines 84-90: the loop over the chips psutil lists.
RECURSIVE ChipTemperatures(_, _)
ChipTemperatures(chips, temps) ==
    IF chips = <<>> THEN temps
    ELSE ChipTemperatures(Tail(chips),
            IF CpuChip(Head(chips).name)
            THEN EntryTemperatures(Head(chips).entries, 1, temps)
            ELSE temps)

\* Lines 82-92: psutil.sensors_temperatures() raises, or its chips are
\* looped over.
PsutilTier(psutil) ==
    IF psutil.ok THEN ChipTemperatures(psutil.v, <<>>) ELSE <<>>

\* A line of text that float() parses to n, and one it does not parse.
NumberLine(n) == [t |-> "num", v |-> n]
TextLine == [t |-> "text", v |-> 0]

\* Lines 100-107: the second line of the wmic output is parsed and kept if
\* it is positive; any failure is swallowed.
WmicTier(wmic, temps) ==
    IF wmic.ok /\ Len(wmic.v) >= 2 /\ ~FloatRaises(wmic.v[2])
          /\ wmic.v[2].v > 0
    THEN Put(temps, <<"CPU">>, Num(wmic.v[2].v))
    ELSE temps

\* A line of the `sensors` output: its text before the first colon, the
\* number of colons in it, and the text between the colon and the degree
\* sign.
SensorsLine(label, colons, reading) ==
    [label |-> label, colons |-> colons, reading |-> reading]

\* Lines 112-120: the parse of the `sensors` output.
RECURSIVE SensorsTemperatures(_, _)
SensorsTemperatures(lines, temps) ==
    IF lines = <<>> THEN temps
    ELSE LET line == Head(lines)
         IN  SensorsTemperatures(Tail(lines),
                IF /\ line.colons = 1
                   /\ CpuChip(line.label)
                   /\ ~FloatRaises(line.reading)
                THEN Put(temps, line.label, Num(line.reading.v))
                ELSE temps)

\* Lines 110-122: `subprocess` is a local name of the function (line 99
\* imports it in the other branch) and is unbound here, so line 111 raises
\* UnboundLocalError before the command runs; the except clause of line 121
\* swallows it.
SensorsTier(sensors, temps) == temps

\* Lines 95-124: the system utilities are tried when nothing was found.
UtilityTier(os, env, temps) ==
    IF ~Empty(temps) THEN temps
    ELSE IF os = "nt" THEN WmicTier(env.wmic, temps)
    ELSE SensorsTier(env.sensors, temps)

\* Lines 126-127.
Unavailable ==
    Put(<<>>, <<"error">>,
        Text(<<"Temperature", "sensors", "not", "available">>))

\* The value get_cpu_temperature returns on a machine answering env.
CpuTemperature(os, env) ==
    LET first == IF os = "nt" THEN MsiTier(WmiTier(env.wmi), env.msi)
                 ELSE PsutilTier(env.psutil)
        temps == UtilityTier(os, env, first)
    IN  IF Empty(temps) THEN Unavailable ELSE temps

\* What the sources of the CPU temperature can answer.
WmiCpuAnswers ==
    { Raised, Ok(<<>>),
      Ok(<<Sensor("Temperature", <<"CPU", "Package">>, Num(50))>>),
      Ok(<<Sensor("Load", <<"CPU", "Total">>, Num(12)),
           Sensor("Temperature", <<"Mainboard">>, Num(35))>>),
      Ok(<<Sensor("Temperature", <<"CPU", "Package">>, Num(50)),
           Sensor("Temperature", <<"CPU", "Core", "#1">>, None)>>) }
MsiAnswers == {"absent", "path_missing", "installed"}
WmicAnswers ==
    { Raised, Ok(<<TextLine>>), Ok(<<TextLine, NumberLine(0)>>),
      Ok(<<TextLine, NumberLine(45)>>) }
Chip(name, entries) == [name |-> name, entries |-> entries]
Reading(label, current) == [label |-> label, current |-> current]
PsutilAnswers ==
    { Raised, Ok(<<>>),
      Ok(<<Chip(<<"core", "temp">>,
                <<Reading(<<"Package", "id", "0">>, 41), Reading(<<>>, 40)>>)>>),
      Ok(<<Chip(<<"acpitz">>, <<Reading(<<>>, 30)>>)>>),
      Ok(<<Chip(<<"core", "temp">>, <<Reading(<<>>, 0)>>)>>) }
SensorsAnswers ==
    { Raised,
      Ok(<<SensorsLine(<<"coretemp-isa-0000">>, 0, TextLine),
           SensorsLine(<<"Core", "0">>, 1, NumberLine(42))>>) }

\* The machines get_cpu_temperature can run on, per operating system.
CpuTemperatureEnvs(os) ==
    IF os = "nt"
    THEN { [wmi |-> w, msi |-> m, wmic |-> c, psutil |-> Raised,
            sensors |-> Raised] :
           w \in WmiCpuAnswers, m \in MsiAnswers, c \in WmicAnswers }
    ELSE { [wmi |-> Raised, msi |-> "absent", wmic |-> Raised, psutil |-> p,
            sensors |-> s] :
           p \in PsutilAnswers, s \in SensorsAnswers }

GetCpuTemperature ==
    \E env \in CpuTemperatureEnvs(os_name) :
       /\ call' = HostResult("get_cpu_temperature", FALSE,
                             CpuTemperature(os_name, env), env)
       /\ UNCHANGED <<gpu_monitor, cpu_info, partitions, tmp_files,
                        window>>

-----------------------------------------------------------------------------
(* CPUMonitor.get_cpu_info, RAMMonitor.get_ram_info and                    *)
(* StorageMonitor.get_disk_io: none of them has a try block.               *)

\* What psutil.cpu_freq() answers: it raises, it returns None (the
\* frequency cannot be determined), or it returns the frequencies.
CpuFreqAnswers == {Raised, Ok(None), Ok(Num(3600))}

\* cpu_info.py, lines 24-31: a missing key raises KeyError, and .max of None
\* raises AttributeError.
GetCpuInfo ==
    \E freq \in CpuFreqAnswers :
       LET raises == \/ ~(CpuInfoKeys \subseteq cpu_info)
                     \/ ~freq.ok
                     \/ freq.v.t # "num"
       IN  /\ call' = HostResult("get_cpu_info", raises,
                         IF raises THEN <<>>
                         ELSE [frequency_max |-> freq.v.v,
                               frequency_current |-> freq.v.v],
                         freq)
           /\ UNCHANGED <<gpu_monitor, cpu_info, partitions, tmp_files,
                        window>>

\* What psutil.virtual_memory() and psutil.swap_memory() answer.
MemoryAnswers == {Raised, Ok(Num(8))}

\* ram_info.py, lines 25-38.
GetRamInfo ==
    \E vm \in MemoryAnswers, swap \in MemoryAnswers :
       LET raises == ~vm.ok \/ ~swap.ok
       IN  /\ call' = HostResult("get_ram_info", raises,
                         IF raises THEN <<>>
                         ELSE [total |-> vm.v.v, swap_total |-> swap.v.v],
                         [vm |-> vm, swap |-> swap])
           /\ UNCHANGED <<gpu_monitor, cpu_info, partitions, tmp_files,
                        window>>

\* What psutil.disk_io_counters(perdisk=True) answers: it raises, or it
\* returns the counters of the disks (a read count per disk here).
DiskIoAnswers == {Raised, Ok(<<>>), Ok(<<7>>)}

\* storage_info.py, lines 48-60.
GetDiskIo ==
    \E io_counters \in DiskIoAnswers :
       /\ call' = HostResult("get_disk_io", ~io_counters.ok,
                     IF io_counters.ok
                     THEN [d \in DOMAIN io_counters.v |->
                              [read_count |-> io_counters.v[d]]]
                     ELSE <<>>,
                     io_counters)
       /\ UNCHANGED <<gpu_monitor, cpu_info, partitions, tmp_files,
                        window>>

-----------------------------------------------------------------------------
(* StorageMonitor.get_drives_info (src/hardware/storage_info.py, 16-39). *)

\* 1024 ** 3 bytes; the sizes of the volumes are counted in MiB.
GiB == 1024

\* psutil.disk_usage(partition.mountpoint) of a volume that answers.
Usage(total, used) == [total |-> total, used |-> used]
UsageOf(p) == Usage(4 * p * GiB, p * GiB)

\* How the lookup can end: with the usage, or with an exception.
UsageAnswers == {"ok", "PermissionError", "FileNotFoundError", "OSError"}

\* A handler that catches PermissionError only.
CaughtPermissionOnly(error) == error = "PermissionError"

\* Lines 37 and 137: the exceptions the loops catch.
Caught(error) == error \in {"PermissionError", "FileNotFoundError"}

\* Lines 27-35: the entry of a volume.
DriveInfo(p, usage) ==
    [device |-> p, mountpoint |-> p,
     total_gb |-> usage.total \div GiB, used_gb |-> usage.used \div GiB]

\* Lines 24-38: the loop from the k-th volume on; drives_info is the list
\* built so far.  An exception the loop does not catch ends the call.
RECURSIVE DrivesLoop(_, _, _)
DrivesLoop(k, lookups, drives_info) ==
    IF k > Len(partitions) THEN [raised |-> FALSE, value |-> drives_info]
    ELSE IF lookups[k] = "ok"
    THEN DrivesLoop(k + 1, lookups,
            Append(drives_info, DriveInfo(partitions[k],
                                          UsageOf(partitions[k]))))
    ELSE IF Caught(lookups[k])
    THEN DrivesLoop(k + 1, lookups, drives_info)
    ELSE [raised |-> TRUE, value |-> <<>>]

\* One answer of the usage lookup per volume.
LookupAnswers == [DOMAIN partitions -> UsageAnswers]

GetDrivesInfo ==
    \E lookups \in LookupAnswers :
       LET r == DrivesLoop(1, lookups, <<>>)
       IN  /\ call' = HostResult("get_drives_info", r.raised, r.value,
                                 lookups)
           /\ UNCHANGED <<gpu_monitor, cpu_info, partitions, tmp_files,
                        window>>

-----------------------------------------------------------------------------
(* StorageMonitor.get_smart_info (src/hardware/storage_info.py, 62-96). *)

\* The keys of the mapping get_smart_info returns.
DiskKey(disk) == <<"disk", ToString(disk)>>
ErrorKey == <<"error">>

\* How subprocess.run(['smartctl', ...]) followed by json.loads can end:
\* with the data, with a failing smartctl, or with smartctl not installed.
SmartAnswers ==
    { [ok |-> TRUE, error |-> ""] }
    \cup { [ok |-> FALSE, error |-> x] :
           x \in {"CalledProcessError", "FileNotFoundError"} }

\* Lines 76-79: the disks of the volumes (partition.device[:2]).
RECURSIVE Disks(_, _)
Disks(k, disks) ==
    IF k > Len(partitions) THEN disks
    ELSE Disks(k + 1,
               IF \E i \in 1..Len(disks) : disks[i] = partitions[k]
               THEN disks ELSE Append(disks, partitions[k]))

\* Lines 81-92: the loop over the disks; an exception other than the two of
\* line 91 leaves it.
RECURSIVE SmartLoop(_, _, _, _)
SmartLoop(k, disks, answers, smart_info) ==
    IF k > Len(disks) THEN [raised |-> FALSE, value |-> smart_info]
    ELSE IF answers[k].ok
    THEN SmartLoop(k + 1, disks, answers,
            Put(smart_info, DiskKey(disks[k]), Text(<<"smart", "data">>)))
    ELSE IF answers[k].error \in {"CalledProcessError", "JSONDecodeError"}
    THEN SmartLoop(k + 1, disks, answers,
            Put(smart_info, DiskKey(disks[k]),
                Text(<<"Failed", "to", "get", "SMART", "info">>)))
    ELSE [raised |-> TRUE, value |-> smart_info]

\* Lines 70-96.
SmartInfo(os, answers) ==
    IF os # "nt"
    THEN Put(<<>>, ErrorKey, Text(<<"supported", "only", "on", "Windows">>))
    ELSE LET r == SmartLoop(1, Disks(1, <<>>), answers, <<>>)
         IN  IF r.raised
             THEN Put(<<>>, ErrorKey,
                      Text(<<"Failed", "to", "get", "SMART", "info:">>))
             ELSE r.value

GetSmartInfo ==
    \E answers \in [DOMAIN partitions -> SmartAnswers] :
       /\ call' = HostResult("get_smart_info", FALSE,
                             SmartInfo(os_name, answers), answers)
       /\ UNCHANGED <<gpu_monitor, cpu_info, partitions, tmp_files,
                        window>>

-----------------------------------------------------------------------------
(* StorageMonitor.calculate_disk_speed (storage_info.py, 98-140). *)

\* How the test of one volume can end: every step succeeds, or
\* open(test_path, 'wb') is denied, f.write fails (the volume is full), or
\* the read-back is denied.
SpeedAnswers ==
    { [step |-> "none", error |-> ""],
      [step |-> "create", error |-> "PermissionError"],
      [step |-> "write", error |-> "OSError"],
      [step |-> "read", error |-> "PermissionError"] }

\* The test file of the volume exists once open(test_path, 'wb') returned.
Created(answer) == answer.step # "create"

\* os.remove (line 130) is reached and succeeds.
Removed(answer) == answer.step = "none"

\* Lines 132-136.
SpeedEntry == [write_speed |-> 100, read_speed |-> 200, total_speed |-> 150]

\* Lines 111-138: the loop from the k-th volume on; results is the mapping
\* built so far and files the volumes holding a test file.
RECURSIVE SpeedLoop(_, _, _, _)
SpeedLoop(k, answers, results, files) ==
    IF k > Len(partitions)
    THEN [raised |-> FALSE, value |-> results, files |-> files]
    ELSE LET p == partitions[k]
             after == IF Removed(answers[k]) THEN files \ {p}
                      ELSE IF Created(answers[k]) THEN files \cup {p}
                      ELSE files
         IN  IF answers[k].step = "none"
             THEN SpeedLoop(k + 1, answers,
                            Put(results, DiskKey(p), SpeedEntry), after)
             ELSE IF Caught(answers[k].error)
             THEN SpeedLoop(k + 1, answers, results, after)
             ELSE [raised |-> TRUE, value |-> <<>>, files |-> after]

CalculateDiskSpeed ==
    \E answers \in [DOMAIN partitions -> SpeedAnswers] :
       LET r == SpeedLoop(1, answers, <<>>, tmp_files)
       IN  /\ call' = HostResult("calculate_disk_speed", r.raised, r.value,
                                 answers)
           /\ tmp_files' = r.files
           /\ UNCHANGED <<gpu_monitor, cpu_info, partitions, window>>

-----------------------------------------------------------------------------
(* RAMMonitor.calculate_ram_speed (src/hardware/ram_info.py, 97-144) and   *)
(* CPUMonitor.get_detailed_usage (src/hardware/cpu_info.py, 131-143).      *)

\* The float infinity, beside the fractions and NaN.
InfRatio == [t |-> "inf", n |-> 1, d |-> 0]

\* The longest CPU time, in clock ticks, one timed operation is seen to take.
MaxElapsed == 1

\* The block sizes the test is called with: the default of line 97, an
\* empty block and a negative size.
SpeedSizes == {100, 0, -1}

\* What the test measures: psutil.cpu_times() raises, or the differences of
\* the user CPU time around the three writes and around the three reads.
RamSpeedEnv(ok, write_times, read_times) ==
    [cpu_times |-> ok, write_times |-> write_times,
     read_times |-> read_times]
\* The three timings of one series: the first m operations are seen to
\* take e ticks, the others none.
Timings ==
    { [k \in 1..3 |-> IF k <= m THEN e ELSE 0] :
          m \in 0..3, e \in 1..MaxElapsed }
RamSpeedEnvs ==
    { RamSpeedEnv(TRUE, w, r) : w \in Timings, r \in Timings }
    \cup { RamSpeedEnv(FALSE, [k \in 1..3 |-> 0], [k \in 1..3 |-> 0]) }

\* np.mean of three timings.
Mean(times) == Ratio(times[1] + times[2] + times[3], 3)

\* Lines 129-130: size_mb / np.mean(...), a division of numpy floats: by
\* zero it gives inf for a positive size and nan for the size 0, with a
\* warning and without raising.
SpeedOf(size_mb, mean) ==
    IF mean.n # 0 THEN Ratio(size_mb * mean.d, mean.n)
    ELSE IF size_mb = 0 THEN NaNRatio
    ELSE InfRatio

\* Line 131: (write_speed + read_speed) / 2 on floats.
HalfSum(a, b) ==
    IF a.t = "nan" \/ b.t = "nan" THEN NaNRatio
    ELSE IF a.t = "inf" \/ b.t = "inf" THEN InfRatio
    ELSE Ratio(a.n * b.d + b.n * a.d, 2 * a.d * b.d)

\* Python's == and >= 0 on these floats: NaN is equal to nothing and is not
\* >= 0.
FloatEq(a, b) ==
    \/ a.t = "num" /\ b.t = "num" /\ a.n * b.d = b.n * a.d
    \/ a.t = "inf" /\ b.t = "inf"
NonNegative(a) ==
    \/ a.t = "num" /\ a.n >= 0
    \/ a.t = "inf"

Speeds(write, read, total) ==
    [write_speed |-> write, read_speed |-> read, total_speed |-> total]

\* Lines 139-144: the result of the exception handler.
ZeroSpeeds == Speeds(Ratio(0, 1), Ratio(0, 1), Ratio(0, 1))

\* Lines 109-110 and 115, 123: np.zeros raises for a negative size, and
\* psutil.cpu_times() may raise.
RamSpeedFails(size_mb, env) == size_mb < 0 \/ ~env.cpu_times

\* ram_info.py, lines 107-144.
CalculateRamSpeed ==
    \E size_mb \in SpeedSizes, env \in RamSpeedEnvs :
       LET write_speed == SpeedOf(size_mb, Mean(env.write_times))
           read_speed == SpeedOf(size_mb, Mean(env.read_times))
           total_speed == HalfSum(write_speed, read_speed)
       IN  /\ call' = HostResult("calculate_ram_speed", FALSE,
                         IF RamSpeedFails(size_mb, env) THEN ZeroSpeeds
                         ELSE Speeds(write_speed, read_speed, total_speed),
                         [size_mb |-> size_mb, measured |-> env])
           /\ UNCHANGED <<gpu_monitor, cpu_info, partitions, tmp_files,
                        window>>

\* The most logical cores of a machine.
MaxCores == 2

\* What psutil.cpu_percent(interval=None, percpu=True) answers: it raises, or
\* it returns one load per logical core.
PercentAnswers ==
    {Raised} \cup { Ok([k \in 1..n |-> Num(10 * k)]) : n \in 1..MaxCores }

\* What psutil.cpu_count() answers: the number of logical cores, or None
\* when it cannot be determined.
CountAnswers == {Ok(None)} \cup { Ok(Num(n)) : n \in 1..MaxCores }

\* cpu_info.py, lines 138-143: the handler computes [0.0] * cpu_count(),
\* which raises TypeError when the count is None.
GetDetailedUsage ==
    \E percent \in PercentAnswers, count \in CountAnswers :
       LET raises == ~percent.ok /\ count.v = None
       IN  /\ call' = HostResult("get_detailed_usage", raises,
                         IF percent.ok THEN percent.v
                         ELSE IF raises THEN <<>>
                         ELSE [k \in 1..count.v.v |-> Num(0)],
                         [percent |-> percent, count |-> count])
           /\ UNCHANGED <<gpu_monitor, cpu_info, partitions, tmp_files,
                        window>>

-----------------------------------------------------------------------------
(* The monitors of the main window other than the GPU monitor, on a        *)
(* machine with any number of volumes.                                     *)

\* The GPU monitor of these machines: one Windows and one other machine.
HostMachines ==
    { e \in ConstructEnvs : e.nvml.kind \in {"import_error", "handle_error"} }

HostInit ==
    /\ \E e \in HostMachines : Construct(e)
    /\ Constructed
    /\ \E n \in 0..MaxVolumes, info \in {CpuInfoKeys, {}} :
          HostConstruct(n, info)
    /\ NoWindow

HostNext ==
    \/ GetCpuTemperature
    \/ GetCpuInfo
    \/ GetRamInfo
    \/ GetDiskIo
    \/ GetDrivesInfo
    \/ GetSmartInfo
    \/ CalculateDiskSpeed
    \/ CalculateRamSpeed
    \/ GetDetailedUsage

HostSpec == HostInit /\ [][HostNext]_vars

-----------------------------------------------------------------------------
(* The main window (src/ui/main_window.py): its timer calls update_data    *)
(* once a second.  A sample in a history list is written as the number of  *)
(* the tick that took it.                                                  *)

\* The length the history lists are cut to (lines 298, 320, 351).
HistoryLimit == 60

\* self.update_timer.start(1000), in tenths of a second.
TimerPeriod == 10

\* How many times the timer fires, and in how many of its ticks a source
\* fails or deviates from its ordinary answers.
MaxTicks == 62
MaxUpsets == 1

\* A history that is never cut.
Untrimmed(data) == data

\* Lines 298-299 (320-321, 351-352): if len(data) > 60: data.pop(0)
Trim(data) == IF Len(data) > HistoryLimit THEN Tail(data) ELSE data

\* Lines 297-299: data.append(x), then the cut.
Sample(data, x) == Trim(Append(data, x))

\* The machines the window runs on: a Windows machine whose GPU only the OS
\* sensors see, and a machine where NVML works on one device.
WindowMachines ==
    { ConstructEnv(NvmlOutcome("count_error", 0), ListFail, "nt",
                   "gpu_sensor"),
      ConstructEnv(NvmlOutcome("ok", 1), Listed(OrdinaryListing(1)),
                   "posix", "error") }

\* MainWindow.__init__, lines 26-66: the monitors are constructed, the
\* histories are empty, no tab is set up yet.
WindowInit ==
    /\ \E e \in WindowMachines : Construct(e)
    /\ Constructed
    /\ HostConstruct(MaxVolumes, CpuInfoKeys)
    /\ cpu_usage_data = <<>> /\ gpu_usage_data = <<>>
    /\ ram_usage_data = <<>>
    /\ gpu_figure = FALSE /\ gpu_labels = 0
    /\ stage = "built" /\ ticks = 0 /\ upsets = 0

\* What the GPU sources answer to a get_gpu_info call of the window:
\* GPUtil.getGPUs() raises, or the sources answer for at most one device.
GpuAnswer(ok, s) == [ok |-> ok, s |-> s]
GpuAnswers ==
    { GpuAnswer(FALSE, <<>>) }
    \cup { GpuAnswer(TRUE, s) :
             s \in { x \in Sources(IF nvml_initialized
                                   THEN Len(handles) ELSE 0) :
                        Len(x.listing) <= 1 } }

\* The sources give their ordinary answers for one device.
QuietAnswer(g) ==
    /\ g.ok
    /\ g.s.listing = OrdinaryListing(1)
    /\ \A k \in 1..Len(g.s.nvml) : g.s.nvml[k] = OrdinaryNvml

\* What a get_gpu_info call that refreshes leaves behind and returns
\* (gpu_info.py, lines 126-197).
Refreshed(g) ==
    IF g.ok
    THEN LET st == InfoLoop(1, g.s.listing, g.s.nvml,
                            [lvl |-> last_valid_load, lvi |-> last_valid_info,
                             out |-> <<>>, built |-> <<>>, done |-> {}])
         IN  [lvl |-> st.lvl, lvi |-> st.lvi, gpus |-> g.s.listing,
              out |-> st.out, built |-> st.built, done |-> st.done,
              asked |-> Asked(1..(IF nvml_initialized
                                  THEN Smaller(Len(g.s.listing), Len(handles))
                                  ELSE 0), "ok", FALSE)]
    ELSE [lvl |-> last_valid_load, lvi |-> last_valid_info, gpus |-> gpus,
          out |-> CachedInfo,
          built |-> IF last_valid_info # None
                    THEN <<Entry(0, FALSE)>> ELSE <<>>,
          done |-> {}, asked |-> Asked({}, "raised", FALSE)]

\* setup_gpu_tab, lines 138-179: the first get_gpu_info call; the figure and
\* one label and one bar per sample exist only if it returned a sample.
SetupGpuTab ==
    /\ stage = "built"
    /\ \E g \in GpuAnswers :
         LET r == Refreshed(g)
         IN  /\ last_update' = now
             /\ gpus' = r.gpus
             /\ last_valid_load' = r.lvl
             /\ last_valid_info' = r.lvi
             /\ ret' = Result("get_gpu_info", r.out, TRUE, <<>>, r.built,
                              r.done, r.asked)
             /\ gpu_figure' = (r.out # <<>>)
             /\ gpu_labels' = Len(r.out)
    /\ prev' = PrevInfo
    /\ stage' = "running"
    /\ UNCHANGED <<nvml_initialized, handles, now, os_name, init_log,
                   session, host, cpu_usage_data, gpu_usage_data,
                   ram_usage_data, ticks, upsets>>

\* Line 334: int(gpu['load']) raises ValueError for a load that is NaN.
LabelsRaise(info) ==
    \E i \in 1..Smaller(Len(info), gpu_labels) : info[i].load.t = "nan"

\* update_data, lines 287-375, when get_detailed_usage returns: the CPU
\* sample is taken; get_gpu_info refreshes, a second after the call before
\* it, and get_gpu_usage, called right after it, returns
\* [last_valid_load]; the GPU sample is taken if get_gpu_info returned a
\* sample and the figure exists; an exception while the labels are written
\* ends the tick before the RAM sample.
UpdateDataSampling ==
    /\ stage = "running"
    /\ ticks < MaxTicks
    /\ \E g \in GpuAnswers :
         /\ QuietAnswer(g) \/ upsets < MaxUpsets
         /\ LET r == Refreshed(g)
                gpu_usage == <<r.lvl>>
                shown == r.out # <<>> /\ gpu_figure
            IN  /\ now' = now + TimerPeriod
                /\ last_update' = now'
                /\ gpus' = r.gpus
                /\ last_valid_load' = r.lvl
                /\ last_valid_info' = r.lvi
                /\ ret' = [op |-> "get_gpu_usage", t |-> 0, due |-> FALSE,
                           value |-> gpu_usage, read |-> FALSE,
                           nvml |-> <<>>, built |-> <<>>, done |-> {},
                           asked |-> NoneAsked]
                /\ cpu_usage_data' = Sample(cpu_usage_data, ticks + 1)
                /\ gpu_usage_data' =
                      IF shown /\ PyGe(gpu_usage[1], Num(0))
                      THEN Sample(gpu_usage_data, ticks + 1)
                      ELSE gpu_usage_data
                /\ ram_usage_data' =
                      IF shown /\ LabelsRaise(r.out) THEN ram_usage_data
                      ELSE Sample(ram_usage_data, ticks + 1)
                /\ call' = IF shown /\ LabelsRaise(r.out)
                           THEN HostResult("get_detailed_usage", FALSE,
                                           <<>>, <<>>)
                           ELSE HostResult("get_ram_usage", FALSE, <<>>,
                                           <<>>)
                /\ upsets' = IF QuietAnswer(g) THEN upsets ELSE upsets + 1
    /\ prev' = NoCall
    /\ ticks' = ticks + 1
    /\ UNCHANGED <<nvml_initialized, handles, os_name, init_log, session,
                   cpu_info, partitions, tmp_files, gpu_figure, gpu_labels,
                   stage>>

\* update_data when get_detailed_usage raises (line 293): the handler of
\* lines 374-375 ends the tick before any sample is taken.
UpdateDataAborted ==
    /\ stage = "running"
    /\ ticks < MaxTicks
    /\ upsets < MaxUpsets
    /\ now' = now + TimerPeriod
    /\ call' = HostResult("get_detailed_usage", TRUE, <<>>,
                          [percent |-> Raised, count |-> Ok(None)])
    /\ ticks' = ticks + 1
    /\ upsets' = upsets + 1
    /\ UNCHANGED <<fields, os_name, init_log, ret, prev, session, cpu_info,
                   partitions, tmp_files, cpu_usage_data, gpu_usage_data,
                   ram_usage_data, gpu_figure, gpu_labels, stage>>

UpdateData == UpdateDataSampling \/ UpdateDataAborted

WindowNext ==
    \/ SetupGpuTab
    \/ UpdateData

WindowSpec == WindowInit /\ [][WindowNext]_vars

----------------------------------------------------------------------------
(* The cache of get_gpu_info. *)

\* The latest call is a get_gpu_info call.
IsInfoCall == ret.op = "get_gpu_info"

\* The entries of the latest get_gpu_info result.
InfoEntries == 1..Len(ret.value)

\* C1: two consecutive get_gpu_info calls made less than update_interval
\* apart return identical results, whatever the number of devices: the
\* second call does not re-query the source and returns the same list of
\* samples (same length, same entries, same order) as the first.
C1_ConsecutiveCallsIdentical ==
    (IsInfoCall /\ prev.t > 0) => (~ret.read /\ ret.value = prev.v)

\* The case of C1: the second of two such calls, the first of which
\* refreshed from a listing of more than one device.
C1_SecondCallAfterTwoSamples ==
    IsInfoCall /\ prev.t > 0 /\ Len(prev.v) > 1

\* What the source says now about the device whose turn built entry j of the
\* latest get_gpu_info result: the NVML answers when the device is read
\* through NVML, else the listing of GPUtil.
EntryViaNvml(j) == nvml_initialized /\ ret.built[j].dev <= Len(ret.nvml)
CurrentListed(j) == gpus[ret.built[j].dev]
CurrentNvml(j) == ret.nvml[ret.built[j].dev]
CurrentLoad(j) ==
    IF EntryViaNvml(j) THEN Num(CurrentNvml(j).util.v)
    ELSE CurrentListed(j).load
CurrentTotal(j) ==
    IF EntryViaNvml(j) THEN CurrentNvml(j).mem.total \div MiB
    ELSE CurrentListed(j).memoryTotal.v
CurrentTemperature(j) ==
    IF EntryViaNvml(j) THEN Num(CurrentNvml(j).temp.v)
    ELSE IF CurrentListed(j).temperature = None THEN Num(0)
    ELSE CurrentListed(j).temperature

\* Entry j carries the identity of the device whose turn built it.
CurrentIdentity(j) ==
    /\ ret.value[j].id = CurrentListed(j).id
    /\ ret.value[j].uuid = CurrentListed(j).uuid
    /\ ret.value[j].name = CurrentListed(j).name

\* C2 (as amended): a get_gpu_info call made at least update_interval after
\* the last refresh re-queries the source, and so does the first call after
\* construction; every sample of its result that was built from a completed
\* read carries the device's current identity, total memory and temperature,
\* and the current load unless that load is negative.
C2_MissRequeries ==
    /\ (IsInfoCall /\ ret.due) => ret.read
    /\ IsInfoCall => last_update > 0
    /\ (IsInfoCall /\ ret.due) =>
         \A j \in InfoEntries :
            ret.built[j].fresh =>
               /\ CurrentIdentity(j)
               /\ ret.value[j].total_memory = CurrentTotal(j)
               /\ ret.value[j].temperature = CurrentTemperature(j)
               /\ \/ ret.value[j].load = CurrentLoad(j)
                  \/ PyLt(CurrentLoad(j), Num(0))

\* The case of C2: a refresh that found a last valid sample, so one that
\* follows an earlier refresh, and built a sample that differs from it.
C2_RefreshAfterRefresh ==
    /\ IsInfoCall /\ ret.due /\ ret.read
    /\ Len(ret.built) = 2
    /\ ~ret.built[1].fresh /\ ret.built[2].fresh
    /\ ret.value[2] # ret.value[1]

\* C2 (as stated): every sample a get_gpu_info call returns at least
\* update_interval after the last refresh reflects the source's current
\* values rather than the cached ones.
C2_EverySampleCurrent ==
    (IsInfoCall /\ ret.due) =>
       /\ ret.read
       /\ \A j \in InfoEntries :
             ret.built[j].fresh /\ ret.value[j].load = CurrentLoad(j)

----------------------------------------------------------------------------
(* The values get_gpu_info, get_gpu_usage and get_gpu_memory_usage return. *)

\* The used memory, in megabytes, the source reports now for the device
\* whose turn built entry j.
CurrentUsed(j) ==
    IF EntryViaNvml(j) THEN CurrentNvml(j).mem.used \div MiB
    ELSE CurrentListed(j).memoryUsed.v

\* The latest call is a get_gpu_info call that listed the devices.
IsInfoRefresh == IsInfoCall /\ ret.read

\* C3: for any reading with used > total (total > 0) and any reported free
\* value, the sample get_gpu_info returns has used = total and free = 0.
C3_UsedOverTotalClamped ==
    IsInfoRefresh =>
       \A j \in InfoEntries :
          (/\ ret.built[j].fresh
           /\ CurrentTotal(j) > 0
           /\ CurrentUsed(j) > CurrentTotal(j))
             => /\ ret.value[j].used_memory = ret.value[j].total_memory
                /\ ret.value[j].free_memory = 0

\* The case of C3: a sample built from a reading with used > total > 0.
C3_ReadingOverTotal ==
    /\ IsInfoRefresh
    /\ \E j \in InfoEntries :
          /\ ret.built[j].fresh
          /\ CurrentTotal(j) > 0
          /\ CurrentUsed(j) > CurrentTotal(j)

\* used <= total, free <= total and free + used <= total
WithinTotal(used, free, total) ==
    used <= total /\ free <= total /\ free + used <= total

\* C4: every memory reading returned by get_gpu_info or get_gpu_memory_usage
\* (on the NVML path, the GPUtil path and the cache-hit path) satisfies
\* used <= total, free <= total and free + used <= total.
C4_MemoryWithinTotal ==
    /\ IsInfoCall =>
          \A j \in InfoEntries :
             WithinTotal(ret.value[j].used_memory, ret.value[j].free_memory,
                         ret.value[j].total_memory)
    /\ ret.op = "get_gpu_memory_usage" =>
          \A j \in 1..Len(ret.value) :
             WithinTotal(ret.value[j].used, ret.value[j].free,
                         ret.value[j].total)

\* A percentage that lies in [0, 100]; NaN does not.
InPercentRange(x) == x.t = "num" /\ 0 <= x.v /\ x.v <= 100

\* C5: every percentage the GPU monitor returns ('load' in the samples of
\* get_gpu_info, the entries of get_gpu_usage, 'utilization' in the entries
\* of get_gpu_memory_usage) lies in [0, 100].
C5_PercentagesInRange ==
    /\ IsInfoCall =>
          \A j \in InfoEntries : InPercentRange(ret.value[j].load)
    /\ ret.op = "get_gpu_usage" =>
          \A j \in 1..Len(ret.value) : InPercentRange(ret.value[j])
    /\ ret.op = "get_gpu_memory_usage" =>
          \A j \in 1..Len(ret.value) :
             /\ 0 <= ret.value[j].utilization.num
             /\ ret.value[j].utilization.num
                   <= 100 * ret.value[j].utilization.den

----------------------------------------------------------------------------
(* The last valid sample and the last valid load. *)

\* The loads the completed reads of the latest call produced: the loads of
\* the samples get_gpu_info built, the entries get_gpu_usage read as valid.
CompletedLoads ==
    IF IsInfoCall
    THEN { ret.value[j].load :
             j \in { k \in 1..Len(ret.built) : ret.built[k].fresh } }
    ELSE IF ret.op = "get_gpu_usage" /\ ret.done # {}
    THEN { ret.value[j] : j \in 1..Len(ret.value) }
    ELSE {}

\* The samples the completed reads of the latest call produced.
CompletedSamples ==
    IF IsInfoCall
    THEN { ret.value[j] :
             j \in { k \in 1..Len(ret.built) : ret.built[k].fresh } }
    ELSE {}

\* C6: last_valid_info and last_valid_load are overwritten only by a device
\* read that completed and was sanitized; a read that raises part-way
\* through building the sample leaves both fields unchanged.
C6_OnlyCompletedReadsOverwrite ==
    [][/\ last_valid_load' # last_valid_load
          => last_valid_load' \in CompletedLoads'
       /\ last_valid_info' # last_valid_info
          => last_valid_info' \in CompletedSamples']_vars

\* C7: in get_gpu_info with NVML active, when exactly one of the three reads
\* of a device (utilization, memory, temperature) fails, the sample returned
\* for that device carries the freshly read values of the other two metrics.
OneReadFails(r) ==
    \/ ~r.util.ok /\ r.mem.ok /\ r.temp.ok
    \/ r.util.ok /\ ~r.mem.ok /\ r.temp.ok
    \/ r.util.ok /\ r.mem.ok /\ ~r.temp.ok

CarriesTheOtherTwo(sample, r) ==
    /\ (r.util.ok /\ r.util.v >= 0) => sample.load = Num(r.util.v)
    /\ r.mem.ok => sample.total_memory = r.mem.total \div MiB
    /\ r.temp.ok => sample.temperature = Num(r.temp.v)

C7_OtherMetricsFresh ==
    (IsInfoRefresh /\ nvml_initialized) =>
       \A i \in 1..Len(ret.nvml) :
          OneReadFails(ret.nvml[i]) =>
             \E j \in InfoEntries :
                /\ ret.built[j].dev = i
                /\ CarriesTheOtherTwo(ret.value[j], ret.nvml[i])

\* The case of C7: exactly one NVML read of a device failed, and the result
\* has an entry for the device.
C7_OneReadFailed ==
    /\ IsInfoRefresh /\ nvml_initialized
    /\ \E i \in 1..Len(ret.nvml) :
          /\ OneReadFails(ret.nvml[i])
          /\ \E j \in InfoEntries : ret.built[j].dev = i

\* C8: in a multi-device system, the entry get_gpu_info returns in place of
\* a device whose read failed is that same device's last valid sample (same
\* id and uuid), never a sample of another device.
C8_FallbackOfSameDevice ==
    (IsInfoRefresh /\ Len(gpus) > 1) =>
       \A j \in InfoEntries :
          (~ret.built[j].fresh /\ ret.built[j].dev > 0) =>
             /\ ret.value[j].id = gpus[ret.built[j].dev].id
             /\ ret.value[j].uuid = gpus[ret.built[j].dev].uuid

\* The case of C8: a device's read failed and an entry stands in its place.
C8_FallbackEntry ==
    /\ IsInfoRefresh /\ Len(gpus) > 1
    /\ \E j \in InfoEntries : ~ret.built[j].fresh /\ ret.built[j].dev > 0

\* C9: a negative utilization is never returned (get_gpu_info and
\* get_gpu_usage replace it with the last valid non-negative value), and
\* last_valid_load is >= 0 in every reachable state.
C9_LoadNeverNegative ==
    /\ PyGe(last_valid_load, Num(0))
    /\ IsInfoCall =>
          \A j \in InfoEntries : PyGe(ret.value[j].load, Num(0))
    /\ ret.op = "get_gpu_usage" =>
          \A j \in 1..Len(ret.value) : PyGe(ret.value[j], Num(0))

\* Every adapter __init__ probed failed: NVML unavailable or raising, GPUtil
\* raising, the OS sensors raising or showing no GPU sensor.
AllAdaptersFailed ==
    /\ ~nvml_initialized
    /\ \A k \in 1..Len(init_log) :
          init_log[k].outcome \notin {"ok", "gpu_sensor"}

\* No source has listed a device or answered for one, up to the latest call.
NoSourceAnswers == gpus = <<>> /\ ret.done = {}

\* C10: if every adapter fails at construction, the device list is empty
\* and every query method (get_gpu_info, get_gpu_usage, get_gpu_memory_usage,
\* get_gpu_temperature) returns an empty sequence, on every later call.
C10_AllFailedReturnsEmpty ==
    AllAdaptersFailed =>
       /\ ret.op = "__init__" => (gpus = <<>> /\ handles = <<>>)
       /\ (ret.op # "__init__" /\ NoSourceAnswers) => ret.value = <<>>

\* The case of C10: a query on a monitor all of whose adapters failed.
C10_QueryAfterAllFailed ==
    AllAdaptersFailed /\ ret.op # "__init__" /\ NoSourceAnswers

----------------------------------------------------------------------------
(* Construction and teardown of the GPU monitor. *)

\* The monitor has just been constructed.
JustConstructed == ret.op = "__init__"

\* __init__ probed the adapter.
Probed(adapter) ==
    \E k \in 1..Len(init_log) : init_log[k].adapter = adapter

\* The priority of an adapter: NVML, then GPUtil, then the OS sensors.
Priority(adapter) ==
    CASE adapter = "nvml" -> 1
      [] adapter = "gputil" -> 2
      [] adapter = "wmi" -> 3

\* The adapter was probed and found a device.
NvmlSucceeded == nvml_initialized /\ handles # <<>>
GPUtilSucceeded ==
    /\ \E k \in 1..Len(init_log) :
          init_log[k] = Probe("gputil", "ok")
    /\ ~\E k \in 1..Len(init_log) :
          init_log[k] = Probe("wmi", "gpu_sensor")
    /\ gpus # <<>>

\* C11: construction tries the adapters in the order NVML, GPUtil, OS
\* sensors, and once a higher-priority adapter has succeeded no
\* lower-priority adapter is probed or used to populate the device list.
C11_FirstSuccessEndsProbing ==
    JustConstructed =>
       /\ \A i, j \in 1..Len(init_log) :
             i < j => Priority(init_log[i].adapter)
                         < Priority(init_log[j].adapter)
       /\ NvmlSucceeded => (~Probed("gputil") /\ ~Probed("wmi"))
       /\ GPUtilSucceeded => ~Probed("wmi")

\* The case of C11: NVML succeeded at construction.
C11_NvmlSucceeded == JustConstructed /\ NvmlSucceeded


\* C12: the NVML session is released exactly once per monitor: over any
\* sequence of __del__ calls nvmlShutdown is called at most once.
C12_ShutdownAtMostOnce == session.shutdowns <= 1

\* The case of C12: __del__ has been called more than once.
C12_TornDownTwice == session.deleted > 1

\* C13: every NVML session opened by a successful nvmlInit during
\* construction is released at teardown, also when nvmlDeviceGetCount or
\* nvmlDeviceGetHandleByIndex failed after nvmlInit succeeded.
C13_OpenedSessionReleased ==
    (TornDown /\ session.opened) => session.shutdowns >= 1

\* The case of C13: teardown of a monitor whose construction opened a
\* session and then failed to enumerate the devices.
C13_TornDownAfterPartialInit ==
    TornDown /\ session.opened /\ ~nvml_initialized

\* The query methods of the GPU monitor.  Each of them catches every
\* exception, so a call `ret` records has returned its value to the caller.
QueryMethods ==
    {"get_gpu_info", "get_gpu_usage", "get_gpu_memory_usage",
     "get_gpu_temperature"}

\* C14: a query method called after the monitor has been torn down raises
\* to the caller instead of returning cached or sentinel data: once __del__
\* has run, no query call returns.
C14_QueryAfterTeardownRaises == TornDown => ret.op \notin QueryMethods

\* The case of C14: a query method was called after a teardown.
C14_QueryAfterTeardown == TornDown /\ ret.op \in QueryMethods

-----------------------------------------------------------------------------
(* The fallback chain of get_cpu_temperature. *)

\* The latest call into the host monitors is a get_cpu_temperature call.
IsCpuTemperatureCall == call.op = "get_cpu_temperature"

\* Tier 1 (the OS sensor interface) and tier 2 (the vendor tool) produced
\* nothing on the machine answering env.
FirstTiersFail(os, env) ==
    Empty(IF os = "nt" THEN MsiTier(WmiTier(env.wmi), env.msi)
          ELSE PsutilTier(env.psutil))

\* What tier 3, the system utility, reports on that machine: the reading of
\* wmic on Windows, the parsed output of `sensors` elsewhere.
ThirdTierValue(os, env) ==
    IF os = "nt" THEN WmicTier(env.wmic, <<>>)
    ELSE IF env.sensors.ok THEN SensorsTemperatures(env.sensors.v, <<>>)
    ELSE <<>>

\* Tiers 1 and 2 fail and tier 3 succeeds.
OnlyThirdTierSucceeds(os, env) ==
    FirstTiersFail(os, env) /\ ~Empty(ThirdTierValue(os, env))

\* C15: in get_cpu_temperature, whenever tier 1 and tier 2 fail and tier 3
\* succeeds, the returned mapping holds tier 3's value and no exception
\* reaches the caller, on Windows and on the other systems alike.
C15_ThirdTierValueReturned ==
    (IsCpuTemperatureCall /\ OnlyThirdTierSucceeds(os_name, call.env)) =>
        /\ ~call.raised
        /\ call.value = ThirdTierValue(os_name, call.env)

\* The case of C15 off Windows: psutil gave nothing and `sensors` prints a
\* core temperature.
C15_OnlySensorsAnswers ==
    /\ IsCpuTemperatureCall
    /\ os_name # "nt"
    /\ OnlyThirdTierSucceeds(os_name, call.env)

\* The readings the sensor sources of the machine hold.
SourceReadings(os, env) ==
    IF os = "nt"
    THEN (IF env.wmi.ok
          THEN { env.wmi.v[i].Value : i \in DOMAIN env.wmi.v } ELSE {})
         \cup (IF env.wmic.ok
               THEN { Num(env.wmic.v[i].v) :
                      i \in { j \in DOMAIN env.wmic.v :
                                env.wmic.v[j].t = "num" } }
               ELSE {})
    ELSE (IF env.psutil.ok
          THEN UNION { { Num(env.psutil.v[c].entries[e].current) :
                         e \in DOMAIN env.psutil.v[c].entries } :
                       c \in DOMAIN env.psutil.v }
          ELSE {})
         \cup (IF env.sensors.ok
               THEN { Num(env.sensors.v[i].reading.v) :
                      i \in { j \in DOMAIN env.sensors.v :
                                env.sensors.v[j].reading.t = "num" } }
               ELSE {})

\* C16: get_cpu_temperature never fabricates a reading: its result is
\* never empty, and it is either the unavailable marker or a mapping whose
\* every value was read from a sensor source of the machine.
C16_NoFabricatedReading ==
    IsCpuTemperatureCall =>
        /\ ~call.raised
        /\ ~Empty(call.value)
        /\ \/ call.value = Unavailable
           \/ \A label \in DOMAIN call.value :
                 call.value[label] \in SourceReadings(os_name, call.env)

\* The case of C16: the WMI query raised, MSI Afterburner is installed and
\* wmic has no reading.
C16_OnlyAfterburnerFound ==
    /\ IsCpuTemperatureCall
    /\ os_name = "nt"
    /\ ~call.env.wmi.ok
    /\ call.env.msi = "installed"
    /\ ~call.env.wmic.ok

-----------------------------------------------------------------------------
(* The storage monitor. *)

\* The answers of the volumes before the k-th let the loop reach it.
Reached(k, answers) ==
    \A j \in 1..(k - 1) :
       answers[j].step = "none" \/ Caught(answers[j].error)

\* The volumes on which the latest calculate_disk_speed call created its
\* test file.
CreatedBy(answers) ==
    { partitions[k] : k \in { j \in DOMAIN partitions :
                                Reached(j, answers) /\ Created(answers[j]) } }

\* C17: after calculate_disk_speed has run, no test file it created remains
\* on any volume, also when the read-back failed.
C17_NoTestFileRemains ==
    call.op = "calculate_disk_speed" =>
        tmp_files \cap CreatedBy(call.env) = {}

\* The case of C17: the test file was written and the read-back failed.
C17_ReadBackFailed ==
    /\ call.op = "calculate_disk_speed"
    /\ \E k \in DOMAIN partitions :
          Reached(k, call.env) /\ call.env[k].step = "read"

\* The volumes whose usage lookup succeeded.
Succeeded(lookups) == { k \in DOMAIN partitions : lookups[k] = "ok" }

\* Every lookup that failed raised PermissionError or FileNotFoundError.
OnlySkippableFailures(lookups) ==
    \A k \in DOMAIN partitions :
       lookups[k] \in {"ok", "PermissionError", "FileNotFoundError"}

\* C18: get_drives_info returns exactly the volumes whose usage lookup
\* succeeded, in enumeration order, each with the entry of its own usage:
\* a volume raising PermissionError or FileNotFoundError is skipped and
\* leaves the entries of the other volumes as they are.
C18_ExactlySuccessfulVolumes ==
    (call.op = "get_drives_info" /\ OnlySkippableFailures(call.env)) =>
        /\ ~call.raised
        /\ Len(call.value) = Cardinality(Succeeded(call.env))
        /\ \A i \in 1..Len(call.value) :
              \E k \in Succeeded(call.env) :
                 /\ call.value[i] = DriveInfo(partitions[k],
                                              UsageOf(partitions[k]))
                 /\ Cardinality({ j \in Succeeded(call.env) : j < k }) = i - 1

\* The case of C18: the second of three volumes raises one of the two
\* exceptions and the volumes around it succeed.
C18_SkippedBetweenTwo ==
    /\ call.op = "get_drives_info"
    /\ Len(partitions) >= 3
    /\ call.env[1] = "ok"
    /\ call.env[2] \in {"PermissionError", "FileNotFoundError"}
    /\ call.env[3] = "ok"
    /\ Len(call.value) = 2

\* C19: get_smart_info never raises and always returns a mapping keyed by
\* device: each device of the monitor has its own entry (data, or a 'not
\* supported' / 'failed' marker), whatever the platform and the tool do.
C19_KeyedByDevice ==
    call.op = "get_smart_info" =>
        /\ ~call.raised
        /\ DOMAIN call.value =
              { DiskKey(partitions[k]) : k \in DOMAIN partitions }

\* The case of C19: smartctl answered for one device and is missing for a
\* later one.
C19_ToolFailsAfterResult ==
    /\ call.op = "get_smart_info"
    /\ os_name = "nt"
    /\ \E i, j \in DOMAIN partitions :
          /\ i < j
          /\ \A k \in 1..(j - 1) : call.env[k].error # "FileNotFoundError"
          /\ call.env[i].ok
          /\ call.env[j].error = "FileNotFoundError"

\* The routine sampling calls of the host monitors.
SamplingCalls ==
    {"get_cpu_info", "get_ram_info", "get_disk_io", "get_drives_info",
     "calculate_disk_speed"}

\* C20: no routine sampling call raises to the caller: get_cpu_info,
\* get_ram_info, get_disk_io, get_drives_info and calculate_disk_speed
\* absorb every failure of the OS source.
C20_SamplingNeverRaises == call.op \in SamplingCalls => ~call.raised

\* The case of C20: a sampling call ran against a failing OS source.
C20_SourceFailed ==
    /\ call.op = "get_ram_info"
    /\ ~call.env.vm.ok

----------------------------------------------------------------------------
(* The temperature tiers and the shape of the results. *)

\* The latest call is a get_gpu_temperature call.
IsTemperatureCall == ret.op = "get_gpu_temperature"

\* The entries of the latest get_gpu_temperature result that are 0.0.
ZeroEntries == { i \in 1..Len(ret.value) : ret.value[i] = Num(0) }

\* C23: in get_gpu_temperature a device's entry is 0.0 only after every tier
\* (NVML, GPUtil, OS sensors) has been tried for it and failed: the handle of
\* the device was queried when NVML is active, GPUtil was asked when it is
\* not, and on Windows the OS sensors were queried.
C23_ZeroOnlyAfterEveryTier ==
    (IsTemperatureCall /\ ZeroEntries # {}) =>
       /\ nvml_initialized =>
             \A i \in ZeroEntries : i <= Len(handles) => i \in ret.asked.nvml
       /\ ~nvml_initialized => ret.asked.gputil # "none"
       /\ os_name = "nt" => ret.asked.wmi

\* The case of C23: a get_gpu_temperature call on Windows returned a 0.0.
C23_ZeroOnWindows ==
    IsTemperatureCall /\ ZeroEntries # {} /\ os_name = "nt"

\* C24: every get_gpu_info result contains exactly one sample per device in
\* the current device list, in the order of the list: on a cache miss, on a
\* cache hit, and when a device's read fails.
C24_OneSamplePerDevice ==
    IsInfoCall =>
       /\ Len(ret.value) = Len(gpus)
       /\ \A j \in InfoEntries : ret.value[j].id = gpus[j].id

\* The case of C24: a get_gpu_info call on a monitor whose device list
\* holds more than one device.
C24_CallWithTwoDevices == IsInfoCall /\ Len(gpus) > 1

----------------------------------------------------------------------------
(* The score. *)

\* The latest call is a calculate_gpu_score call.
IsScoreCall == ret.op = "calculate_gpu_score"

\* The devices the latest calculate_gpu_score call enumerated: the handles
\* with NVML active, else the devices GPUtil listed.
Enumerated ==
    IF nvml_initialized THEN 1..Len(handles)
    ELSE IF ret.asked.gputil = "ok" THEN 1..Len(ret.asked.listing)
    ELSE {}

\* (100 - utilization%) x total memory of device k, as the sources reported
\* them to the call, in the unit of the call's denominator.
ScoreTerm(k) ==
    IF nvml_initialized
    THEN (100 - ret.nvml[k].util.v) * ret.nvml[k].mem.total
    ELSE (100 - ret.asked.listing[k].load.v)
             * ret.asked.listing[k].memoryTotal.v

RECURSIVE SumOfTerms(_)
SumOfTerms(devices) ==
    IF devices = {} THEN 0
    ELSE LET k == CHOOSE d \in devices : TRUE
         IN  ScoreTerm(k) + SumOfTerms(devices \ {k})

\* C25: calculate_gpu_score returns the sum over all devices of
\* (100 - utilization%) x total memory in GB: every enumerated device
\* contributes exactly one term, and the score is 0 when there are no
\* devices.
C25_ScoreSumsEveryDevice ==
    IsScoreCall =>
       /\ ret.done = Enumerated
       /\ ret.value.t = "num"
       /\ ret.value.n = SumOfTerms(Enumerated)

\* The case of C25: a calculate_gpu_score call that enumerated two devices.
C25_ScoreOverTwoDevices == IsScoreCall /\ Cardinality(Enumerated) = 2

----------------------------------------------------------------------------
(* The rate-limit gate and the handles. *)

\* The latest call is a get_gpu_info call during which GPUtil.getGPUs()
\* raised.
IsFailedRefresh == IsInfoCall /\ ret.asked.gputil = "raised"

\* The latest call was served from the cache: it turned to no source and
\* returned the last valid sample as a list, [] when there is none.
ServedFromCache ==
    /\ ~ret.read
    /\ ret.asked = NoneAsked
    /\ ret.value = IF last_valid_info # None
                   THEN <<last_valid_info>> ELSE <<>>

\* C26: a get_gpu_info refresh that fails (device enumeration raises) still
\* arms the rate-limit gate: last_update is the time of the failed call, and
\* every get_gpu_info call during the following update_interval is served
\* from the cache (an empty list without a last valid sample) and does not
\* retry the source.
C26_FailedRefreshArmsGate ==
    /\ IsFailedRefresh => last_update = ret.t
    /\ (IsInfoCall /\ ret.t - last_update < update_interval
           /\ ~IsFailedRefresh /\ last_update # ret.t) => ServedFromCache
    /\ (IsInfoCall /\ prev.listed = "raised") =>
          (ServedFromCache /\ last_update = prev.t)

\* The case of C26: a get_gpu_info call that directly follows a failed
\* refresh, within update_interval, on a monitor without a last valid sample.
C26_CallAfterFailedRefresh ==
    /\ IsInfoCall /\ prev.listed = "raised"
    /\ last_valid_info = None /\ ret.value = <<>>

\* C27: only get_gpu_info advances last_update: get_gpu_usage,
\* get_gpu_memory_usage, get_gpu_temperature and calculate_gpu_score leave
\* it unchanged; and a get_gpu_usage call made within update_interval after
\* a refresh returns exactly [last_valid_load], one element, without
\* querying any source.
C27_OnlyInfoAdvancesGate ==
    /\ [][last_update' # last_update => ret'.op = "get_gpu_info"]_vars
    /\ [](ret.op = "get_gpu_usage" /\ now - last_update < update_interval
             => /\ ret.value = <<last_valid_load>>
                /\ ~ret.read
                /\ ret.asked = NoneAsked)

\* The case of C27: a get_gpu_usage call within update_interval after a
\* refresh that listed two devices.
C27_UsageWithinIntervalOfRefresh ==
    /\ ret.op = "get_gpu_usage"
    /\ last_update > 0 /\ now - last_update < update_interval
    /\ Len(gpus) = 2

\* The NVML part of __init__ obtained every handle.
NvmlInitSucceeded ==
    \E k \in 1..Len(init_log) : init_log[k] = Probe("nvml", "ok")

\* C28: the handles are acquired only during construction: no query method
\* adds, removes or replaces an entry of the handle list, and an NVML query
\* is issued only on a handle of the list and only while nvml_initialized is
\* true, so never by a monitor whose NVML initialization failed, even one
\* that had collected handles before the failure.
C28_HandlesFixedNvmlOnlyWhenInitialized ==
    /\ [][handles' = handles]_vars
    /\ [](ret.asked.nvml # {} =>
             /\ nvml_initialized /\ NvmlInitSucceeded
             /\ ret.asked.nvml \subseteq 1..Len(handles))

\* The case of C28: a query on a monitor whose NVML initialization failed
\* after it had collected a handle.
C28_QueryAfterPartialInit ==
    /\ ret.op \in {"get_gpu_info", "get_gpu_usage", "get_gpu_memory_usage",
                   "get_gpu_temperature", "calculate_gpu_score"}
    /\ ~NvmlInitSucceeded /\ handles # <<>>

----------------------------------------------------------------------------
(* The entries of get_gpu_temperature with NVML active. *)

\* The latest call is a get_gpu_temperature call on a monitor with NVML
\* active.
IsNvmlTemperatureCall == IsTemperatureCall /\ nvml_initialized

\* Entry j of the result was appended in the turn of handle j, whose
\* fallback index len(temps) was the index of that handle.
EntriesFollowHandles ==
    /\ Len(ret.value) = Len(handles)
    /\ Len(ret.built) = Len(handles)
    /\ \A j \in 1..Len(ret.built) : ret.built[j] = Turn(j, j)

\* C29 (as amended): with NVML active and at least one handle,
\* get_gpu_temperature returns exactly one entry per handle, in handle order,
\* whichever fallback branch each device takes, and the fallback index
\* len(temps) equals the index of the handle being processed; with NVML
\* active and no handle the result is what the OS sensors report or the
\* single entry 0.0; in every case the returned list is non-empty.
C29_OneEntryPerHandleIfAny ==
    /\ (IsNvmlTemperatureCall /\ handles # <<>>) => EntriesFollowHandles
    /\ (IsNvmlTemperatureCall /\ handles = <<>>) =>
          (ret.asked.wmi \/ ret.value = <<Num(0)>>)
    /\ IsTemperatureCall => ret.value # <<>>

\* The case of C29: a call on two handles, the first of which took the
\* shutdown threshold as its entry and the second NVML's temperature.
C29_TwoHandlesTwoBranches ==
    /\ IsNvmlTemperatureCall /\ Len(handles) = 2
    /\ ret.value = <<Num(90), Num(55)>>

\* C29 (as stated): with NVML active, get_gpu_temperature returns exactly
\* one entry per handle, in handle order, and the returned list is non-empty.
C29_OneEntryPerHandle ==
    /\ IsNvmlTemperatureCall => EntriesFollowHandles
    /\ IsTemperatureCall => ret.value # <<>>

----------------------------------------------------------------------------
(* The RAM speed test and the per-core usage. *)

\* The latest call is a calculate_ram_speed call.
IsRamSpeedCall == call.op = "calculate_ram_speed"

\* The test of the latest calculate_ram_speed call failed: the block could
\* not be allocated or the CPU times could not be read.
RamSpeedFailed == call.env.size_mb < 0 \/ ~call.env.measured.cpu_times

\* C21: for every size_mb and every set of measured timings,
\* calculate_ram_speed returns total_speed equal to
\* (read_speed + write_speed) / 2 with all three values >= 0; on any failure
\* it returns all three values exactly 0; and it does not raise.
C21_RamSpeedConsistent ==
    IsRamSpeedCall =>
       /\ ~call.raised
       /\ FloatEq(call.value.total_speed,
                  HalfSum(call.value.read_speed, call.value.write_speed))
       /\ NonNegative(call.value.write_speed)
       /\ NonNegative(call.value.read_speed)
       /\ NonNegative(call.value.total_speed)
       /\ RamSpeedFailed =>
             /\ FloatEq(call.value.write_speed, Ratio(0, 1))
             /\ FloatEq(call.value.read_speed, Ratio(0, 1))
             /\ FloatEq(call.value.total_speed, Ratio(0, 1))

\* The case of C21: a test on a block of the default size whose reads took
\* measurable CPU time.
C21_MeasuredRun ==
    /\ IsRamSpeedCall /\ call.env.size_mb = 100 /\ ~RamSpeedFailed
    /\ call.value.read_speed.t = "num"

\* C22: when the per-core load read fails, get_detailed_usage returns a list
\* of 0.0 values whose length equals the known logical core count, and it
\* never raises to the caller.
C22_ZeroFilledPerCore ==
    call.op = "get_detailed_usage" =>
       /\ ~call.raised
       /\ ~call.env.percent.ok =>
             /\ Len(call.value) = call.env.count.v.v
             /\ \A k \in 1..Len(call.value) : call.value[k] = Num(0)

\* The case of C22: a call during which the per-core load read failed.
C22_LoadReadFailed ==
    call.op = "get_detailed_usage" /\ ~call.env.percent.ok

----------------------------------------------------------------------------
(* The history lists of the main window. *)

\* The samples of a history are in the order in which they were taken.
InOrder(data) ==
    \A i \in 1..Len(data) : \A j \in 1..Len(data) :
       i < j => data[i] < data[j]

\* A step that changes a history appends the sample of the tick to it and,
\* when the history was full, drops its oldest sample and nothing else.
AppendsAndDropsOldest(data, after) ==
    after # data =>
       after = IF Len(data) = HistoryLimit
               THEN Append(Tail(data), ticks')
               ELSE Append(data, ticks')

\* C30: each usage history list kept by the main window (CPU, GPU, RAM)
\* never holds more than 60 samples after any sequence of update_data ticks;
\* when a list is full the oldest sample is dropped and the relative order
\* of the remaining samples is preserved.
C30_HistoriesBounded ==
    /\ [](/\ Len(cpu_usage_data) <= HistoryLimit
          /\ Len(gpu_usage_data) <= HistoryLimit
          /\ Len(ram_usage_data) <= HistoryLimit
          /\ InOrder(cpu_usage_data)
          /\ InOrder(gpu_usage_data)
          /\ InOrder(ram_usage_data))
    /\ [][/\ AppendsAndDropsOldest(cpu_usage_data, cpu_usage_data')
          /\ AppendsAndDropsOldest(gpu_usage_data, gpu_usage_data')
          /\ AppendsAndDropsOldest(ram_usage_data, ram_usage_data')]_vars

\* The case of C30: the three histories are full and each has dropped its
\* oldest sample.
C30_FullHistoriesDropped ==
    /\ Len(cpu_usage_data) = HistoryLimit /\ cpu_usage_data[1] > 1
    /\ Len(gpu_usage_data) = HistoryLimit /\ gpu_usage_data[1] > 1
    /\ Len(ram_usage_data) = HistoryLimit /\ ram_usage_data[1] > 1

====
